---- MODULE Spec2Model ----
(***************************************************************************)
(* A model of the niri IPC client library (src/src/niri) and of the        *)
(* scripts built on it (src/scripts).                                      *)
(*                                                                         *)
(*   SpecFraming   the transport alone: NiriSocket._read_next reading an   *)
(*                 arbitrarily chunked byte stream.                        *)
(*   Spec          the event loop of the three programs (handlers.py on    *)
(*                 ipc.py, niri_tile_to_n.py, wallpaper_per_workspace.py): *)
(*                 EventStream request, event mode, handlers, commands,    *)
(*                 termination and close.                                  *)
(*   SpecDispatch  EventDispatcher: registration and dispatch.             *)
(*                                                                         *)
(* Bytes are integers 0..255, decoded text is a sequence of code points,   *)
(* JSON values are records: [num |-> n], [str |-> s], [obj |-> pairs]      *)
(* with pairs a sequence of [k |-> key, v |-> value] in insertion order    *)
(* (a Python dict).                                                        *)
(***************************************************************************)
EXTENDS Integers, Sequences, FiniteSets, TLC

VARIABLES
    variant,        \* which program runs: "_socket", "ipc", "tile", "wallpaper"
    stream,         \* the messages the peer sends on the event connection (ghost)
    wire,           \* bytes the peer has sent that recv has not returned yet
    _msg_queue,     \* NiriSocket._msg_queue: complete messages not yet returned
    _incomplete,    \* NiriSocket._incomplete / _inprog_str: the carried fragment
    pc,             \* position of the main thread
    resp,           \* the value the last _read_next call returned
    returned,       \* every value _read_next has returned, in order (ghost)
    eof_seen,       \* a raw read of the event connection returned zero bytes (ghost)
    error,          \* the exception that is propagating or ended the program
    sent,           \* the requests written to the event connection, in order
    closed,         \* close() was called on the event connection
    req_result,     \* what request("EventStream") returned: <<>> or <<[ok, data]>>
    yielded,        \* the (name, payload) pairs read_eventstream yielded (ghost)
    handled,        \* the handler calls made: [h |-> handler, ev |-> event number]
    hidx,           \* the handler that is running (0: none)
    ncmds,          \* commands the running handler call has issued
    cmd,            \* the command in flight: "none", "action" or "program"
    conn2,          \* per thread, its short-lived second connection
    tpc,            \* position of the timer thread (wallpaper_per_workspace.py)
    status,         \* "running", then how the process exits: "normal" or "error"
    _handlers,      \* EventDispatcher: event name -> list of handlers
    _global_handlers, \* EventDispatcher: the handlers for any event
    registered,     \* every registration made, in the order they were made
    dpc,            \* where dispatch() is: at, loop, index, arguments
    calls,          \* the handler calls of the current dispatch, in order
    cfg,            \* tiling configuration: n, maximize_solos, on_close, on_move
    win_state,      \* the window mirror: None, or an ordered dict id -> window
    wspace_state,   \* the workspace mirror: None, or an ordered dict
    focus_ws,       \* focus_state.workspace_id of niri_tile_to_n.py (0: None)
    tev,            \* the event the tiling handler handled last (ghost)
    issued,         \* the commands issued while handling tev, in order
    terr,           \* the exception handling tev raised ("none": it returned)
    hist,           \* events handled, and which full replaces were seen (ghost)
    before,         \* both mirrors and hist as they were before tev (ghost)
    all_wallpapers, \* WallpaperManager: the scanned image pool
    workspace_wallpapers, \* workspace id -> wallpaper, an ordered dict
    workspace_outputs,    \* workspace id -> output, an ordered dict
    active_workspaces,    \* output -> active workspace id, an ordered dict
    current_workspace_id, \* the focused workspace the manager tracks (0: None)
    timers,         \* every rotation timer created, the last one is self.timer
    wlog,           \* the manager's last operation and its counts (ghost)
    lock,           \* WallpaperManager.lock: "free", or the thread holding it
    th,             \* per thread of the manager: its position and its locals
    trace           \* what the manager's threads did outside the maps (ghost)

\* ------------------------------------------------------------------------
\* Bounds

\* Messages in a stream of SpecFraming.
MaxMsgs == 3
\* Events the peer sends after its reply to EventStream, in Spec.
MaxEvents == 2
\* Commands one handler call issues at most.
MaxCmds == 1
\* Raw reads the reply on a short-lived connection arrives in, at most.
MaxReplyChunks == 2
\* Rotations of the timer thread (each one query on its own connection).
MaxQueries == 1

\* ------------------------------------------------------------------------
\* Text: bytes.decode("utf-8") and str.split("\n")

IsNewline(c) == c = 10

Min(S) == CHOOSE x \in S : \A y \in S : x <= y

\* resp_bytes.decode("utf-8"), strict: one- and two-byte sequences; a lead
\* byte without its continuation byte, or a stray continuation byte, raises
\* UnicodeDecodeError (ok = FALSE).
RECURSIVE decode_utf8(_)
decode_utf8(bs) ==
    IF bs = <<>> THEN [ok |-> TRUE, s |-> <<>>]
    ELSE IF bs[1] < 128
    THEN LET r == decode_utf8(Tail(bs))
         IN  [ok |-> r.ok, s |-> <<bs[1]>> \o r.s]
    ELSE IF bs[1] >= 194 /\ bs[1] <= 223 /\ Len(bs) >= 2
            /\ bs[2] >= 128 /\ bs[2] <= 191
    THEN LET r == decode_utf8(SubSeq(bs, 3, Len(bs)))
         IN  [ok |-> r.ok, s |-> <<(bs[1] - 192) * 64 + (bs[2] - 128)>> \o r.s]
    ELSE [ok |-> FALSE, s |-> <<>>]

\* str.encode("utf-8") for code points below 2048 (what the peer does).
RECURSIVE encode_utf8(_)
encode_utf8(s) ==
    IF s = <<>> THEN <<>>
    ELSE IF s[1] < 128 THEN <<s[1]>> \o encode_utf8(Tail(s))
    ELSE <<192 + (s[1] \div 64), 128 + (s[1] % 64)>> \o encode_utf8(Tail(s))

\* resp_str.split("\n"): always at least one piece.
RECURSIVE split_newline(_)
split_newline(s) ==
    LET nl == {i \in 1..Len(s) : IsNewline(s[i])}
    IN  IF nl = {} THEN <<s>>
        ELSE <<SubSeq(s, 1, Min(nl) - 1)>>
                 \o split_newline(SubSeq(s, Min(nl) + 1, Len(s)))

\* ------------------------------------------------------------------------
\* JSON: json.loads on the subset  value ::= digits | "chars" | {} |
\* {"key":value,...}  without whitespace or escapes.

IsDigit(c) == c >= 48 /\ c <= 57
IsQuote(c) == c = 34
ParseFail == [ok |-> FALSE, val |-> [num |-> 0], next |-> 0]

\* dict[k] = v: replaces the value of an existing key in place, else appends.
DictSet(pairs, k, v) ==
    IF \E i \in 1..Len(pairs) : pairs[i].k = k
    THEN [i \in 1..Len(pairs) |->
             IF pairs[i].k = k THEN [k |-> k, v |-> v] ELSE pairs[i]]
    ELSE Append(pairs, [k |-> k, v |-> v])

RECURSIVE ParseNumber(_, _, _)
ParseNumber(s, i, acc) ==
    IF i <= Len(s) /\ IsDigit(s[i])
    THEN ParseNumber(s, i + 1, acc * 10 + (s[i] - 48))
    ELSE [ok |-> TRUE, val |-> [num |-> acc], next |-> i]

ParseString(s, i) ==
    IF i > Len(s) \/ ~IsQuote(s[i]) THEN ParseFail
    ELSE LET js == {j \in (i + 1)..Len(s) : IsQuote(s[j])}
         IN  IF js = {} THEN ParseFail
             ELSE [ok |-> TRUE, val |-> [str |-> SubSeq(s, i + 1, Min(js) - 1)],
                   next |-> Min(js) + 1]

RECURSIVE ParseValue(_, _), ParseMembers(_, _, _)
ParseValue(s, i) ==
    IF i > Len(s) THEN ParseFail
    ELSE IF IsDigit(s[i])
    THEN IF s[i] = 48 /\ i < Len(s) /\ IsDigit(s[i + 1]) THEN ParseFail
         ELSE ParseNumber(s, i, 0)
    ELSE IF IsQuote(s[i]) THEN ParseString(s, i)
    ELSE IF s[i] = 123
    THEN IF i < Len(s) /\ s[i + 1] = 125
         THEN [ok |-> TRUE, val |-> [obj |-> <<>>], next |-> i + 2]
         ELSE ParseMembers(s, i + 1, <<>>)
    ELSE ParseFail

ParseMembers(s, i, acc) ==
    LET k == ParseString(s, i)
    IN  IF ~k.ok \/ k.next > Len(s) \/ s[k.next] # 58 THEN ParseFail
        ELSE LET v == ParseValue(s, k.next + 1)
             IN  IF ~v.ok \/ v.next > Len(s) THEN ParseFail
                 ELSE IF s[v.next] = 44
                 THEN ParseMembers(s, v.next + 1, DictSet(acc, k.val.str, v.val))
                 ELSE IF s[v.next] = 125
                 THEN [ok |-> TRUE,
                       val |-> [obj |-> DictSet(acc, k.val.str, v.val)],
                       next |-> v.next + 1]
                 ELSE ParseFail

\* json.loads(text): the whole text must be one value, else JSONDecodeError.
json_loads(s) ==
    LET r == ParseValue(s, 1)
    IN  IF r.ok /\ r.next = Len(s) + 1 THEN [ok |-> TRUE, val |-> r.val]
        ELSE [ok |-> FALSE, val |-> [num |-> 0]]

\* The empty dict: what _read_next returns at end of stream.
EmptyDict == [obj |-> <<>>]

\* ------------------------------------------------------------------------
\* Messages of the peer, as the bytes it writes (one JSON text each).

\* {"Ok":1}
MsgOk == <<123, 34, 79, 107, 34, 58, 49, 125>>
\* {"Err":"é"}
MsgErr == <<123, 34, 69, 114, 114, 34, 58, 34, 195, 169, 34, 125>>
\* {"A":1}
MsgA == <<123, 34, 65, 34, 58, 49, 125>>
\* {"B":"é"}
MsgB == <<123, 34, 66, 34, 58, 34, 195, 169, 34, 125>>
\* {}
MsgEmpty == <<123, 125>>

RECURSIVE Frame(_)
\* msg1 \n msg2 \n ... msgk \n
Frame(msgs) ==
    IF msgs = <<>> THEN <<>> ELSE Head(msgs) \o <<10>> \o Frame(Tail(msgs))

\* What a message is once decoded and parsed.
Parsed(m) == json_loads(decode_utf8(m).s).val

SeqsUpTo(S, n) == UNION {[1..k -> S] : k \in 0..n}

\* ------------------------------------------------------------------------
\* Python values

\* "Ok", "Err"
KeyOk == <<79, 107>>
KeyErr == <<69, 114, 114>>

\* key in d
HasKey(d, k) == \E i \in 1..Len(d.obj) : d.obj[i].k = k

\* d[k], for a key of d
Lookup(d, k) == d.obj[CHOOSE i \in 1..Len(d.obj) : d.obj[i].k = k].v

\* d.get(k, {})
GetOrEmpty(d, k) == IF HasKey(d, k) THEN Lookup(d, k) ELSE [obj |-> <<>>]

\* not d, for a dict
Falsy(d) == d.obj = <<>>

\* Exceptions: a type and the arguments the exception carries.
Exc(type) == [type |-> type, args |-> <<>>]
ExcWith(type, arg) == [type |-> type, args |-> <<arg>>]
NoError == Exc("none")

\* ------------------------------------------------------------------------
\* NiriSocket._read_next

NoneStr == [s |-> <<>>, isNone |-> TRUE]
SomeStr(s) == [s |-> s, isNone |-> FALSE]

\* The fragment a fresh NiriSocket carries: None, or "" in ipc.py.
InitIncomplete(v) == IF v = "ipc" THEN SomeStr(<<>>) ELSE NoneStr

\* One pass of the while loop on a non-empty chunk: decode, prepend the
\* carried fragment, split, carry the last piece.
\*   kind = "decode_error": decode raised, nothing was assigned
\*   kind = "again":   no complete message yet, recv again
\*   kind = "msgs":    msgs holds the complete messages of this pass
recv_pass(v, inc, chunk) ==
    LET d == decode_utf8(chunk)
        resp_str == IF inc.isNone THEN d.s ELSE inc.s \o d.s
        pieces == split_newline(resp_str)
        last_piece == pieces[Len(pieces)]
        msg_list == SubSeq(pieces, 1, Len(pieces) - 1)
        carried == IF v = "ipc" THEN SomeStr(last_piece)
                   ELSE IF last_piece # <<>> THEN SomeStr(last_piece)
                   ELSE NoneStr
    IN  IF ~d.ok THEN [msgs |-> <<>>, inc |-> inc, kind |-> "decode_error"]
        ELSE [msgs |-> msg_list, inc |-> carried,
              kind |-> IF msg_list # <<>> THEN "msgs" ELSE "again"]

\* Where the caller of _read_next goes on when the call returns.
AfterRead(at, from_eof) ==
    CASE at = "read_any" -> IF from_eof THEN "eos" ELSE "read_any"
      [] at = "read_reply" -> "got_reply"
      [] at = "read_event" -> "got_event"

Reading == pc \in {"read_any", "read_reply", "read_event"}

\* The state of the EventDispatcher and of its dispatch call.
dvars == <<_handlers, _global_handlers, registered, dpc, calls>>

DispatchIdle ==
    [args |-> <<>>, at |-> "idle", loop |-> 0, idx |-> 0, snap |-> 0,
     detached |-> FALSE]

\* EventDispatcher(): both fields empty, no dispatch running
InitDispatcher ==
    /\ _handlers = << >>
    /\ _global_handlers = <<>>
    /\ registered = <<>>
    /\ dpc = DispatchIdle
    /\ calls = <<>>

\* The state of the tiling handler.
tvars == <<cfg, win_state, wspace_state, focus_ws, tev, issued, terr, hist,
           before>>

\* The state of the wallpaper manager.
wvars == <<all_wallpapers, workspace_wallpapers, workspace_outputs,
           active_workspaces, current_workspace_id, timers, wlog,
           lock, th, trace>>

\* The two threads of a wallpaper manager and what they start with.
Threads == {"main", "timer"}

NoLocals ==
    [pc |-> "idle", ws |-> 0, wallpaper |-> 0, output |-> "", todo |-> <<>>,
     after |-> "idle", workspaces |-> <<>>, exc |-> "none"]

\* No call of apply yet.
NoApply ==
    [ws |-> 0, had_wallpaper |-> FALSE, had_output |-> FALSE, img |-> 0,
     out |-> "", cmds |-> <<>>, done |-> TRUE]

NoTrace ==
    [applies |-> [t \in Threads |-> NoApply], unlocked |-> {},
     locked_cmds |-> 0, stopped |-> FALSE, fired_after_stop |-> FALSE,
     shown |-> <<>>, since |-> {}]

\* The manager's threads are not modelled one step at a time.
InitThreadsIdle ==
    /\ lock = "free"
    /\ th = [t \in Threads |-> NoLocals]
    /\ trace = NoTrace

NoLog ==
    [op |-> "none", shuffled |-> <<>>, known |-> <<>>, applied |-> <<>>,
     err |-> "none", events |-> 0, rotations |-> 0, started |-> FALSE,
     ev |-> <<>>, picks |-> <<>>, was |-> <<>>, gone |-> {}]

\* No wallpaper manager is installed.
InitWallpaperIdle ==
    /\ all_wallpapers = <<>>
    /\ workspace_wallpapers = <<>>
    /\ workspace_outputs = <<>>
    /\ active_workspaces = <<>>
    /\ current_workspace_id = 0
    /\ timers = <<>>
    /\ wlog = NoLog
    /\ InitThreadsIdle

\* A mirror that was never assigned (None), and one that holds a dict.
NoneDict == [isNone |-> TRUE, items |-> <<>>]

SomeDict(items) == [isNone |-> FALSE, items |-> items]

NoEvent == [name |-> "none"]

NoHist == [n |-> 0, win_full |-> FALSE, ws_full |-> FALSE, ref |-> {}]

\* No tiling handler is installed.
InitTileIdle ==
    /\ cfg = [n |-> 0, maximize_solos |-> FALSE, on_close |-> FALSE,
              on_move |-> FALSE]
    /\ win_state = NoneDict
    /\ wspace_state = NoneDict
    /\ focus_ws = 0
    /\ tev = NoEvent
    /\ issued = <<>>
    /\ terr = "none"
    /\ hist = NoHist
    /\ before = [hist |-> NoHist, ws |-> NoneDict, win |-> NoneDict,
                 focus |-> 0]

\* Everything but the transport and the reading thread's position.
lvars == <<sent, closed, req_result, yielded, handled, hidx, ncmds, cmd, conn2,
           tpc, status>>

\* return json.loads(text), or JSONDecodeError
ReturnLoads(text) ==
    LET j == json_loads(text)
    IN  IF j.ok
        THEN /\ resp' = j.val
             /\ returned' = Append(returned, j.val)
             /\ pc' = AfterRead(pc, FALSE)
             /\ error' = error
        ELSE /\ pc' = "raised"
             /\ error' = Exc("JSONDecodeError")
             /\ UNCHANGED <<resp, returned>>

\* if self._msg_queue: return json.loads(self._msg_queue.popleft())
ReadNextQueued ==
    /\ Reading
    /\ _msg_queue # <<>>
    /\ _msg_queue' = Tail(_msg_queue)
    /\ ReturnLoads(Head(_msg_queue))
    /\ UNCHANGED <<variant, stream, wire, _incomplete, eof_seen>>
    /\ UNCHANGED lvars
    /\ UNCHANGED dvars
    /\ UNCHANGED tvars
    /\ UNCHANGED wvars

\* if not msg_list: raise IOError("Error reading next message (empty message
\* list)"), after the loop (not in ipc.py)
EmptyMessageList == Exc("IOError: empty message list")

\* recv returns the next n bytes (1 <= n <= buffer_size)
Recv(n) ==
    /\ Reading
    /\ _msg_queue = <<>>
    /\ n \in 1..Len(wire)
    /\ wire' = SubSeq(wire, n + 1, Len(wire))
    /\ LET p == recv_pass(variant, _incomplete, SubSeq(wire, 1, n))
       IN  CASE p.kind = "decode_error" ->
                    /\ pc' = "raised"
                    /\ error' = Exc("UnicodeDecodeError")
                    /\ UNCHANGED <<_msg_queue, _incomplete, resp, returned>>
             [] p.kind = "again" ->
                    /\ _incomplete' = p.inc
                    /\ UNCHANGED <<_msg_queue, pc, resp, returned, error>>
             [] p.kind = "msgs" ->
                    /\ _incomplete' = p.inc
                    /\ IF variant # "ipc" /\ p.msgs = <<>>
                       THEN /\ pc' = "raised"
                            /\ error' = EmptyMessageList
                            /\ UNCHANGED <<_msg_queue, resp, returned>>
                       ELSE /\ _msg_queue' = Tail(p.msgs)
                            /\ ReturnLoads(Head(p.msgs))
    /\ UNCHANGED <<variant, stream, eof_seen>>
    /\ UNCHANGED lvars
    /\ UNCHANGED dvars
    /\ UNCHANGED tvars
    /\ UNCHANGED wvars

\* recv returns zero bytes: the peer has closed and nothing is left to read
RecvEOF ==
    /\ Reading
    /\ _msg_queue = <<>>
    /\ wire = <<>>
    /\ resp' = EmptyDict
    /\ returned' = Append(returned, EmptyDict)
    /\ eof_seen' = TRUE
    /\ pc' = AfterRead(pc, TRUE)
    /\ UNCHANGED <<variant, stream, wire, _msg_queue, _incomplete, error>>
    /\ UNCHANGED lvars
    /\ UNCHANGED dvars
    /\ UNCHANGED tvars
    /\ UNCHANGED wvars

\* recv raises: the peer reset the connection
RecvError ==
    /\ Reading
    /\ _msg_queue = <<>>
    /\ pc' = "raised"
    /\ error' = Exc("ConnectionResetError")
    /\ UNCHANGED <<variant, stream, wire, _msg_queue, _incomplete, resp,
                   returned, eof_seen>>
    /\ UNCHANGED lvars
    /\ UNCHANGED dvars
    /\ UNCHANGED tvars
    /\ UNCHANGED wvars

vars == <<variant, stream, wire, _msg_queue, _incomplete, pc, resp, returned,
          eof_seen, error, sent, closed, req_result, yielded, handled, hidx,
          ncmds, cmd, conn2, tpc, status,
         _handlers, _global_handlers, registered, dpc, calls,
          cfg, win_state, wspace_state, focus_ws, tev, issued, terr, hist,
          before, all_wallpapers, workspace_wallpapers, workspace_outputs,
          active_workspaces, current_workspace_id, timers, wlog,
          lock, th, trace>>

\* A connection slot that holds no connection.
NoConn ==
    [state |-> "none", sends |-> 0, reads |-> 0, opened |-> 0, result |-> <<>>]

\* What was sent on the event connection before the listening loop is
\* entered: niri_tile_to_n.py has asked for the version and read the reply.
SentAtSetup(v) == IF v = "tile" THEN <<"Version">> ELSE <<>>

InitLoopIdle ==
    /\ sent = SentAtSetup(variant)
    /\ closed = FALSE
    /\ req_result = <<>>
    /\ yielded = <<>>
    /\ handled = <<>>
    /\ hidx = 0
    /\ ncmds = 0
    /\ cmd = "none"
    /\ conn2 = [t \in {"main", "timer"} |-> NoConn]
    /\ tpc = "idle"
    /\ status = "running"

\* ------------------------------------------------------------------------
\* SpecFraming: successive _read_next calls on one connection

FramingPool == {MsgA, MsgB, MsgEmpty, MsgOk}

InitFraming ==
    /\ variant \in {"_socket", "ipc"}
    /\ stream \in SeqsUpTo(FramingPool, MaxMsgs)
    /\ wire = Frame(stream)
    /\ _msg_queue = <<>>
    /\ _incomplete = InitIncomplete(variant)
    /\ pc = "read_any"
    /\ resp = EmptyDict
    /\ returned = <<>>
    /\ eof_seen = FALSE
    /\ error = NoError
    /\ InitLoopIdle
    /\ InitDispatcher
    /\ InitTileIdle
    /\ InitWallpaperIdle

NextFraming ==
    \/ ReadNextQueued
    \/ \E n \in 1..Len(wire) : Recv(n)
    \/ RecvEOF

SpecFraming == InitFraming /\ [][NextFraming]_vars

\* ------------------------------------------------------------------------
\* NiriRequests.request / action / read_eventstream

EnvelopeWholeReply(v, r) ==
    [ok |-> ~HasKey(r, KeyErr), raised |-> FALSE, data |-> r]

\* request() and action(): (is_ok, data) from the reply.  niri_tile_to_n.py
\* subscripts the reply (KeyError when it holds neither key), the others
\* use .get(key, {}).
Envelope(v, r) ==
    LET is_ok == HasKey(r, KeyOk)
        key == IF is_ok THEN KeyOk ELSE KeyErr
    IN  IF v = "tile" /\ ~HasKey(r, key)
        THEN [ok |-> is_ok, raised |-> TRUE, data |-> EmptyDict]
        ELSE [ok |-> is_ok, raised |-> FALSE, data |-> GetOrEmpty(r, key)]

\* The error read_eventstream raises when the request was not ok:
\* niri_tile_to_n.py prints the payload and raises a fixed text.
StartError(v, data) ==
    IF v = "tile" THEN Exc("IOError") ELSE ExcWith("IOError", data)

EventPairWholeEvent(event) == <<event.obj[1].k, event>>

\* name = next(iter(event.keys())); yield name, event.get(name)
EventPair(event) == <<event.obj[1].k, Lookup(event, event.obj[1].k)>>

\* The handlers the loop calls for each event, in order: handlers.py passes
\* [TileManager, WallpaperManager] to subscribe; the scripts handle inline.
NumHandlers(v) == IF v = "ipc" THEN 2 ELSE 1

\* How a handler carries out a command: TileManager._action talks to the
\* socket, everything else runs an external program.
CommandKind(v, h) == IF v = "ipc" /\ h = 1 THEN "action" ELSE "program"

\* The exceptions an interrupt turns into: Ctrl-C everywhere, SIGTERM
\* where catch_sigterm is installed.
Interrupts(v) ==
    IF v = "ipc" THEN {"KeyboardInterrupt"}
    ELSE {"KeyboardInterrupt", "InterruptedError"}

\* self._send_string("EventStream")
SendEventStream ==
    /\ pc = "start"
    /\ sent' = Append(sent, "EventStream")
    /\ pc' = "read_reply"
    /\ UNCHANGED <<variant, stream, wire, _msg_queue, _incomplete, resp,
                   returned, eof_seen, error, closed, req_result, yielded,
                   handled, hidx, ncmds, cmd, conn2, tpc, status>>
    /\ UNCHANGED dvars
    /\ UNCHANGED tvars
    /\ UNCHANGED wvars

\* request() returns; read_eventstream raises unless is_ok
CheckReply ==
    /\ pc = "got_reply"
    /\ LET e == Envelope(variant, resp)
       IN  IF e.raised
           THEN /\ pc' = "raised"
                /\ error' = Exc("KeyError")
                /\ UNCHANGED req_result
           ELSE /\ req_result' = <<[ok |-> e.ok, data |-> e.data]>>
                /\ IF e.ok
                   THEN pc' = "read_event" /\ error' = error
                   ELSE pc' = "raised" /\ error' = StartError(variant, e.data)
    /\ UNCHANGED <<variant, stream, wire, _msg_queue, _incomplete, resp,
                   returned, eof_seen, sent, closed, yielded, handled, hidx,
                   ncmds, cmd, conn2, tpc, status>>
    /\ UNCHANGED dvars
    /\ UNCHANGED tvars
    /\ UNCHANGED wvars

\* The loop of read_eventstream after a read: stop on a falsy event (not in
\* niri_tile_to_n.py, where subscripting the keys of {} raises), else yield
\* the pair, and the loop body calls the first handler.
GotEvent ==
    /\ pc = "got_event"
    /\ IF Falsy(resp)
       THEN /\ IF variant = "tile"
               THEN pc' = "raised" /\ error' = Exc("IndexError")
               ELSE pc' = "ended" /\ error' = error
            /\ UNCHANGED <<yielded, handled, hidx, ncmds>>
       ELSE /\ yielded' = Append(yielded, EventPair(resp))
            /\ handled' = Append(handled, [ev |-> Len(yielded) + 1, h |-> 1])
            /\ hidx' = 1
            /\ ncmds' = 0
            /\ pc' = "handle"
            /\ error' = error
    /\ UNCHANGED <<variant, stream, wire, _msg_queue, _incomplete, resp,
                   returned, eof_seen, sent, closed, req_result, cmd, conn2,
                   tpc, status>>
    /\ UNCHANGED dvars
    /\ UNCHANGED tvars
    /\ UNCHANGED wvars

\* ------------------------------------------------------------------------
\* Short-lived second connections: TileManager._action (handlers.py) and
\* WallpaperManager.get_workspaces (wallpaper_per_workspace.py)

\* The sets of at most k cut positions in a reply of n bytes.
RECURSIVE CutSets(_, _)
CutSets(n, k) ==
    IF k = 0 THEN {{}}
    ELSE CutSets(n, k - 1)
             \cup {c \cup {x} : c \in CutSets(n, k - 1), x \in 1..(n - 1)}

\* bs cut after each position of cuts: the chunks successive recv calls return.
RECURSIVE Chunks(_, _)
Chunks(bs, cuts) ==
    IF cuts = {} THEN IF bs = <<>> THEN <<>> ELSE <<bs>>
    ELSE <<SubSeq(bs, 1, Min(cuts))>>
             \o Chunks(SubSeq(bs, Min(cuts) + 1, Len(bs)),
                       {x - Min(cuts) : x \in cuts \ {Min(cuts)}})

\* _read_next on a connection with an empty queue whose peer sends the
\* chunks and then closes: the while loop run to its return or raise.
RECURSIVE read_next_run(_, _, _)
read_next_run(v, inc, chunks) ==
    IF chunks = <<>> THEN [val |-> EmptyDict, exc |-> "none", raised |-> FALSE]
    ELSE LET p == recv_pass(v, inc, Head(chunks))
         IN  CASE p.kind = "decode_error" ->
                      [val |-> EmptyDict, exc |-> "UnicodeDecodeError",
                       raised |-> TRUE]
               [] p.kind = "again" -> read_next_run(v, p.inc, Tail(chunks))
               [] p.kind = "msgs" ->
                      LET j == json_loads(Head(p.msgs))
                      IN  IF j.ok
                          THEN [val |-> j.val, exc |-> "none", raised |-> FALSE]
                          ELSE [val |-> EmptyDict, exc |-> "JSONDecodeError",
                                raised |-> TRUE]

\* What the peer does on a short-lived connection: it answers with a reply
\* and a newline, or closes without an answer, or resets the connection.
Replies ==
    {[wire |-> w, reset |-> FALSE] : w \in {MsgOk \o <<10>>, MsgErr \o <<10>>, <<>>}}
        \cup {[wire |-> <<>>, reset |-> TRUE]}

\* The one _read_next call of a request on a new connection: recv raises
\* when the peer resets, else the reply arrives cut into chunks.
exchange_read(v, r, cuts) ==
    IF r.reset
    THEN [val |-> EmptyDict, exc |-> "ConnectionResetError", raised |-> TRUE]
    ELSE read_next_run(v, InitIncomplete(v), Chunks(r.wire, cuts))

\* Every way that call can end: whatever the peer does, however the reply is
\* cut into at most MaxReplyChunks chunks.
exchange_reads(v) ==
    UNION {{exchange_read(v, r, cuts) :
               cuts \in CutSets(Len(r.wire), MaxReplyChunks - 1)} : r \in Replies}

\* ... for conn.action of ipc.py and for req.request of
\* wallpaper_per_workspace.py
ActionReads == exchange_reads("ipc")
QueryReads == exchange_reads("wallpaper")

\* connect() and one request written: a new connection
Opened(c) ==
    [state |-> "open", sends |-> 1, reads |-> 0, opened |-> c.opened + 1,
     result |-> <<>>]

\* The connection after its one _read_next returned val and close() ran.
Exchanged(c, v, val) ==
    LET e == Envelope(v, val)
    IN  [c EXCEPT !.state = "closed", !.reads = c.reads + 1,
                  !.result = <<[ok |-> e.ok, data |-> e.data, reply |-> val]>>]

AfterStartDetached == "handle"

\* The position of the handler after it started a command: subprocess.run
\* and conn.action both wait for the command to end.
AfterStart == "cmd"

\* A handler issues a command: TileManager._action connects and sends the
\* action; the others start an external program with subprocess.run.
StartCommand ==
    /\ pc = "handle"
    /\ ncmds < MaxCmds
    /\ ncmds' = ncmds + 1
    /\ cmd' = CommandKind(variant, hidx)
    /\ conn2' = IF CommandKind(variant, hidx) = "action"
                THEN [conn2 EXCEPT !["main"] = Opened(conn2["main"])]
                ELSE conn2
    /\ pc' = AfterStart
    /\ UNCHANGED <<variant, stream, wire, _msg_queue, _incomplete, resp,
                   returned, eof_seen, error, sent, closed, req_result,
                   yielded, handled, hidx, tpc, status>>
    /\ UNCHANGED dvars
    /\ UNCHANGED tvars
    /\ UNCHANGED wvars

\* The external program ends; its exit code is not looked at.
FinishProgram ==
    /\ cmd = "program"
    /\ cmd' = "none"
    /\ pc' = IF pc = "cmd" THEN "handle" ELSE pc
    /\ UNCHANGED <<variant, stream, wire, _msg_queue, _incomplete, resp,
                   returned, eof_seen, error, sent, closed, req_result,
                   yielded, handled, hidx, ncmds, conn2, tpc, status>>
    /\ UNCHANGED dvars
    /\ UNCHANGED tvars
    /\ UNCHANGED wvars

\* conn.action reads its reply and the with block closes the connection,
\* also when the read raises.
FinishAction ==
    /\ cmd = "action"
    /\ \E out \in ActionReads :
             IF out.raised
             THEN /\ conn2' = [conn2 EXCEPT !["main"].state = "closed",
                                            !["main"].reads = @ + 1]
                  /\ pc' = "raised"
                  /\ error' = Exc(out.exc)
             ELSE /\ conn2' = [conn2 EXCEPT
                                 !["main"] = Exchanged(@, "ipc", out.val)]
                  /\ pc' = IF pc = "cmd" THEN "handle" ELSE pc
                  /\ error' = error
    /\ cmd' = "none"
    /\ UNCHANGED <<variant, stream, wire, _msg_queue, _incomplete, resp,
                   returned, eof_seen, sent, closed, req_result, yielded,
                   handled, hidx, ncmds, tpc, status>>
    /\ UNCHANGED dvars
    /\ UNCHANGED tvars
    /\ UNCHANGED wvars

\* The handler returns: the next handler is called with the same event, or
\* the loop goes on to read the next event.
HandlerReturn ==
    /\ pc = "handle"
    /\ IF hidx < NumHandlers(variant)
       THEN /\ hidx' = hidx + 1
            /\ handled' = Append(handled, [ev |-> Len(yielded), h |-> hidx + 1])
            /\ pc' = "handle"
       ELSE /\ hidx' = 0
            /\ pc' = "read_event"
            /\ UNCHANGED handled
    /\ ncmds' = 0
    /\ conn2' = [conn2 EXCEPT !["main"] = NoConn]
    /\ UNCHANGED <<variant, stream, wire, _msg_queue, _incomplete, resp,
                   returned, eof_seen, error, sent, closed, req_result,
                   yielded, cmd, tpc, status>>
    /\ UNCHANGED dvars
    /\ UNCHANGED tvars
    /\ UNCHANGED wvars

\* The handler raises.
HandlerRaise ==
    /\ pc = "handle"
    /\ pc' = "raised"
    /\ error' = Exc("HandlerError")
    /\ UNCHANGED <<variant, stream, wire, _msg_queue, _incomplete, resp,
                   returned, eof_seen, sent, closed, req_result, yielded,
                   handled, hidx, ncmds, cmd, conn2, tpc, status>>
    /\ UNCHANGED dvars
    /\ UNCHANGED tvars
    /\ UNCHANGED wvars

\* An interrupt arrives while the main thread waits or runs a handler; a
\* command in flight is given up (the with block closes its connection,
\* subprocess.run kills the program).
Interrupt ==
    /\ pc \in {"read_reply", "read_event", "handle", "cmd"}
    /\ \E e \in Interrupts(variant) : error' = Exc(e)
    /\ pc' = "raised"
    /\ cmd' = "none"
    /\ conn2' = IF conn2["main"].state = "open"
                THEN [conn2 EXCEPT !["main"].state = "closed"]
                ELSE conn2
    /\ UNCHANGED <<variant, stream, wire, _msg_queue, _incomplete, resp,
                   returned, eof_seen, sent, closed, req_result, yielded,
                   handled, hidx, ncmds, tpc, status>>
    /\ UNCHANGED dvars
    /\ UNCHANGED tvars
    /\ UNCHANGED wvars

ClosesOnCleanExit(v, err) == err = NoError

\* Whether leaving the loop closes the event connection: the with block of
\* handlers.py and the finally clauses of the scripts always do.
ClosesOnExit(v, err) == TRUE

\* How the process ends: the scripts swallow the interrupt exceptions,
\* every other exception leaves as a traceback.
ExitStatus(v, err) ==
    IF err = NoError THEN "normal"
    ELSE IF v # "ipc" /\ err.type \in {"KeyboardInterrupt", "InterruptedError"}
    THEN "normal"
    ELSE "error"

\* The loop is left, by its end or by an exception.
Exit ==
    /\ pc \in {"raised", "ended"}
    /\ closed' = (closed \/ ClosesOnExit(variant, error))
    /\ status' = ExitStatus(variant, error)
    /\ pc' = "exited"
    /\ UNCHANGED <<variant, stream, wire, _msg_queue, _incomplete, resp,
                   returned, eof_seen, error, sent, req_result, yielded,
                   handled, hidx, ncmds, cmd, conn2, tpc>>
    /\ UNCHANGED dvars
    /\ UNCHANGED tvars
    /\ UNCHANGED wvars

\* The timer thread of wallpaper_per_workspace.py rotates: get_workspaces
\* opens a connection and sends "Workspaces".
TimerQueryStart ==
    /\ variant = "wallpaper"
    /\ status = "running"
    /\ tpc = "idle"
    /\ conn2["timer"].opened < MaxQueries
    /\ conn2' = [conn2 EXCEPT !["timer"] = Opened(@)]
    /\ tpc' = "query"
    /\ UNCHANGED <<variant, stream, wire, _msg_queue, _incomplete, pc, resp,
                   returned, eof_seen, error, sent, closed, req_result,
                   yielded, handled, hidx, ncmds, cmd, status>>
    /\ UNCHANGED dvars
    /\ UNCHANGED tvars
    /\ UNCHANGED wvars

\* get_workspaces reads the reply and closes; when the read raises, the
\* except clause returns [] and req.close() is not reached.
TimerQueryFinish ==
    /\ status = "running"
    /\ tpc = "query"
    /\ \E out \in QueryReads :
             conn2' = IF out.raised
                      THEN [conn2 EXCEPT !["timer"].state = "abandoned",
                                         !["timer"].reads = @ + 1]
                      ELSE [conn2 EXCEPT
                              !["timer"] = Exchanged(@, "wallpaper", out.val)]
    /\ tpc' = "idle"
    /\ UNCHANGED <<variant, stream, wire, _msg_queue, _incomplete, pc, resp,
                   returned, eof_seen, error, sent, closed, req_result,
                   yielded, handled, hidx, ncmds, cmd, status>>
    /\ UNCHANGED dvars
    /\ UNCHANGED tvars
    /\ UNCHANGED wvars

\* ------------------------------------------------------------------------
\* Spec: the event loop

EventPool == {MsgA, MsgB, MsgEmpty}

\* The peer answers EventStream with Ok and then sends events, or with Err,
\* or closes without an answer.
Init ==
    /\ variant \in {"ipc", "tile", "wallpaper"}
    /\ stream \in {<<>>, <<MsgErr>>}
                     \cup {<<MsgOk>> \o evs : evs \in SeqsUpTo(EventPool, MaxEvents)}
    /\ wire = Frame(stream)
    /\ _msg_queue = <<>>
    /\ _incomplete = InitIncomplete(variant)
    /\ pc = "start"
    /\ resp = EmptyDict
    /\ returned = <<>>
    /\ eof_seen = FALSE
    /\ error = NoError
    /\ InitLoopIdle
    /\ InitDispatcher
    /\ InitTileIdle
    /\ InitWallpaperIdle

Next ==
    \/ SendEventStream
    \/ ReadNextQueued
    \/ \E n \in 1..Len(wire) : Recv(n)
    \/ RecvEOF
    \/ RecvError
    \/ CheckReply
    \/ GotEvent
    \/ StartCommand
    \/ FinishProgram
    \/ FinishAction
    \/ HandlerReturn
    \/ HandlerRaise
    \/ Interrupt
    \/ Exit
    \/ TimerQueryStart
    \/ TimerQueryFinish

Spec == Init /\ [][Next]_vars

\* ------------------------------------------------------------------------
\* SpecDispatch: EventDispatcher (events.py)

MaxRegs == 3
MaxHandlers == 2

\* The handler functions a program may register; one may be registered twice.
Handlers == 1..MaxHandlers

\* The (name, data) arguments dispatch is called with.
DispatchPool == {EventPair(Parsed(m)) : m \in {MsgA, MsgB}}

\* The loop and its commands stand still while the dispatcher is looked at.
LoopUnchanged ==
    /\ UNCHANGED <<variant, stream, wire, _msg_queue, _incomplete, pc, resp,
                   returned, eof_seen, error>>
    /\ UNCHANGED lvars
    /\ UNCHANGED tvars
    /\ UNCHANGED wvars

\* self._handlers.get(event_name, [])
handlers_get(name) ==
    IF name \in DOMAIN _handlers THEN _handlers[name] ELSE <<>>

\* self._handlers.setdefault(event_name, []).append(handler)
setdefault_append(name, h) ==
    [n \in DOMAIN _handlers \cup {name} |->
        IF n = name THEN Append(handlers_get(name), h) ELSE _handlers[n]]

\* on(event_name)(handler) and add_handler(event_name, handler); a handler
\* may call them while dispatch runs.
add_handler(name, h) ==
    /\ Len(registered) < MaxRegs
    /\ _handlers' = setdefault_append(name, h)
    /\ registered' = Append(registered, [name |-> name, h |-> h, any |-> FALSE])
    /\ UNCHANGED <<_global_handlers, dpc, calls>>
    /\ LoopUnchanged

on_any(h) ==
    /\ Len(registered) < MaxRegs
    /\ _global_handlers' = Append(_global_handlers, h)
    /\ registered' = Append(registered, [name |-> <<>>, h |-> h, any |-> TRUE])
    /\ UNCHANGED <<_handlers, dpc, calls>>
    /\ LoopUnchanged

dispatch_loops_named_first == <<"named", "global">>

\* The two for loops of dispatch, in the order they run.
dispatch_loops == <<"global", "named">>

OnHandlerErrorIsolate == "isolate"

\* What dispatch does with an exception of a handler: nothing catches it.
OnHandlerError == "propagate"

\* dispatch enters its loop number k: the list the for statement iterates is
\* fixed there.  .get() of a missing name gives a new empty list that later
\* registrations do not reach.
enter_loop(d, k) ==
    [d EXCEPT !.loop = k, !.idx = 1,
              !.detached = (dispatch_loops[k] = "named"
                            /\ d.args[1] \notin DOMAIN _handlers)]

\* The list the running loop iterates, as it is now.
loop_list ==
    IF dpc.detached THEN <<>>
    ELSE IF dispatch_loops[dpc.loop] = "global" THEN _global_handlers
    ELSE handlers_get(dpc.args[1])

\* dispatch(event_name, event_data) is called
dispatch(args) ==
    /\ dpc.at \in {"idle", "returned", "raised"}
    /\ dpc' = enter_loop([args |-> args, at |-> "run", loop |-> 1, idx |-> 1,
                          snap |-> Len(registered), detached |-> FALSE], 1)
    /\ calls' = <<>>
    /\ UNCHANGED <<_handlers, _global_handlers, registered>>
    /\ LoopUnchanged

\* handler(event_name, event_data): the next handler of the list is called
\* and returns or raises.
CallHandler(fails) ==
    /\ dpc.at = "run"
    /\ dpc.idx <= Len(loop_list)
    /\ calls' = Append(calls, [ok |-> ~fails, args |-> dpc.args,
                               loop |-> dispatch_loops[dpc.loop],
                               h |-> loop_list[dpc.idx]])
    /\ dpc' = IF fails /\ OnHandlerError = "propagate"
              THEN [dpc EXCEPT !.at = "raised"]
              ELSE [dpc EXCEPT !.idx = @ + 1]
    /\ UNCHANGED <<_handlers, _global_handlers, registered>>
    /\ LoopUnchanged

\* The list is exhausted: the next loop starts, or dispatch returns.
LoopEnd ==
    /\ dpc.at = "run"
    /\ dpc.idx > Len(loop_list)
    /\ dpc' = IF dpc.loop < Len(dispatch_loops)
              THEN enter_loop(dpc, dpc.loop + 1)
              ELSE [dpc EXCEPT !.at = "returned"]
    /\ UNCHANGED <<_handlers, _global_handlers, registered, calls>>
    /\ LoopUnchanged

InitDispatch ==
    /\ variant = "ipc"
    /\ stream = <<>>
    /\ wire = <<>>
    /\ _msg_queue = <<>>
    /\ _incomplete = InitIncomplete(variant)
    /\ pc = "start"
    /\ resp = EmptyDict
    /\ returned = <<>>
    /\ eof_seen = FALSE
    /\ error = NoError
    /\ InitLoopIdle
    /\ InitDispatcher
    /\ InitTileIdle
    /\ InitWallpaperIdle

NextDispatch ==
    \/ \E a \in DispatchPool, h \in Handlers : add_handler(a[1], h)
    \/ \E h \in Handlers : on_any(h)
    \/ \E a \in DispatchPool : dispatch(a)
    \/ \E fails \in BOOLEAN : CallHandler(fails)
    \/ LoopEnd

SpecDispatch == InitDispatch /\ [][NextDispatch]_vars

\* ------------------------------------------------------------------------
\* SpecTile: the tiling handler, in its two implementations
\* (variant "ipc": handlers.py TileManager; variant "tile": niri_tile_to_n.py)

\* Window ids the compositor uses.
MaxWin == 3
\* Events one run of the handler is given.
MaxTileEvents == 2
\* n = 3 / TILE_TO_N = 3: the default threshold, the largest one explored
DefaultN == 3

WinIds == 1..MaxWin

WsIds == {1, 2}

\* layout["pos_in_scrolling_layout"]: None (<<>>) or [column, row]
Positions == {<<>>, <<1, 1>>, <<2, 1>>}

\* A column index of None.
NoCol == 0

\* d.keys()
DictIds(d) == {d[i].id : i \in 1..Len(d)}

\* d[id]
DictGet(d, id) == d[CHOOSE i \in 1..Len(d) : d[i].id = id]

\* d[x["id"]] = x: a known key keeps its place, a new one goes last
DictPut(d, x) ==
    IF x.id \in DictIds(d)
    THEN [i \in 1..Len(d) |-> IF d[i].id = x.id THEN x ELSE d[i]]
    ELSE Append(d, x)

\* d.pop(id)
DictPop(d, id) == SelectSeq(d, LAMBDA x : x.id # id)

\* {x["id"]: x for x in list}
RECURSIVE DictFrom(_)
DictFrom(list) ==
    IF list = <<>> THEN <<>>
    ELSE DictPut(DictFrom(SubSeq(list, 1, Len(list) - 1)), list[Len(list)])

\* A window as the compositor describes it in an event.
Window(id, ws, floating, pos) ==
    [id |-> id, workspace_id |-> ws, is_floating |-> floating,
     is_urgent |-> FALSE, layout |-> pos]

\* pos[0] if pos else None
_get_col_idx(pos) == IF pos = <<>> THEN NoCol ELSE pos[1]

\* What the mirror stores for a window: niri_tile_to_n.py adds col_idx
\* (get_additional_window_data), TileManager stores the event's window.
augment(v, w) ==
    IF v = "tile"
    THEN [id |-> w.id, workspace_id |-> w.workspace_id,
          is_floating |-> w.is_floating, is_urgent |-> w.is_urgent,
          layout |-> w.layout, col_idx |-> _get_col_idx(w.layout)]
    ELSE w

get_tiled_windows_any_workspace(d, ws) ==
    SelectSeq(d, LAMBDA x : ~x.is_floating)

\* the mirrored windows of workspace ws that are not floating
get_tiled_windows(d, ws) ==
    SelectSeq(d, LAMBDA x : x.workspace_id = ws /\ ~x.is_floating)

\* SetWindowWidth {id, change: SetProportion(pct)} / set-window-width pct%
_set_width(id, pct) == [arg |-> pct, name |-> "SetWindowWidth", id |-> id]

consume_direction_left(col) == "ConsumeOrExpelWindowLeft"

\* "ConsumeOrExpelWindowRight" if col == 2 else "ConsumeOrExpelWindowLeft"
consume_direction(col) ==
    IF col = 2 THEN "ConsumeOrExpelWindowRight"
    ELSE "ConsumeOrExpelWindowLeft"

solo_applies_always(c, count) == count = 1

\* count == 1 and maximize_solos
solo_applies(c, count) == count = 1 /\ c.maximize_solos

pair_commands_first(tiled) == <<_set_width(tiled[1].id, 50)>>

\* for w in tiled: _set_width(w, 50)
pair_commands(tiled) == [i \in 1..Len(tiled) |-> _set_width(tiled[i].id, 50)]

\* The commands for a window w the mirror d has just taken in.
window_creation(v, c, d, w) ==
    LET tiled == get_tiled_windows(d, w.workspace_id)
        count == Len(tiled)
    IN  IF w.is_floating THEN <<>>
        ELSE IF v = "tile" /\ (count = 0 \/ count > c.n) THEN <<>>
        ELSE IF solo_applies(c, count)
        THEN <<_set_width(IF v = "tile" THEN tiled[1].id ELSE w.id, 100)>>
        ELSE IF count = 2 THEN pair_commands(tiled)
        ELSE IF 2 < count /\ count <= c.n
        THEN <<[arg |-> 0, name |-> consume_direction(_get_col_idx(w.layout)),
                id |-> w.id]>>
        ELSE <<>>

window_closed_whatever_the_setting(v, c, d, gone) ==
    LET tiled == get_tiled_windows(d, gone.workspace_id)
    IN  IF Len(tiled) = 1 THEN <<_set_width(tiled[1].id, 100)>> ELSE <<>>

\* The commands after window `gone` was taken out of the mirror, leaving d.
window_closed(v, c, d, gone) ==
    LET tiled == get_tiled_windows(d, gone.workspace_id)
        on == IF v = "tile" THEN c.on_close ELSE c.maximize_solos
    IN  IF on /\ Len(tiled) = 1 THEN <<_set_width(tiled[1].id, 100)>>
        ELSE <<>>

\* for change in changes: patch the layout of window change[0]
RECURSIVE layouts_changed(_, _, _)
layouts_changed(v, win, changes) ==
    IF changes = <<>> THEN [err |-> "none", win |-> win]
    ELSE LET ch == Head(changes)
         IN IF win.isNone
            THEN [err |-> "TypeError", win |-> win]
            ELSE IF ch.id \notin DictIds(win.items)
            THEN IF v = "tile" THEN [err |-> "KeyError", win |-> win]
                 ELSE layouts_changed(v, win, Tail(changes))
            ELSE layouts_changed(v,
                    SomeDict(DictPut(win.items,
                       augment(v, [id |-> ch.id,
                          workspace_id |-> DictGet(win.items, ch.id).workspace_id,
                          is_floating |-> DictGet(win.items, ch.id).is_floating,
                          is_urgent |-> DictGet(win.items, ch.id).is_urgent,
                          layout |-> ch.layout]))),
                    Tail(changes))

\* One call of TileManager.__call__, one pass of the loop of
\* niri_tile_to_n.py: the mirrors and the focus after it, the commands it
\* wants to issue, and the exception it raises.
tile_event(v, c, win, ws, focus, e) ==
    LET Ret(w2, s2, f2, cs, err) ==
            [ws |-> s2, cmds |-> cs, err |-> err, win |-> w2, focus |-> f2]
        Same == Ret(win, ws, focus, <<>>, "none")
        Raise(err) == Ret(win, ws, focus, <<>>, err)
    IN
    CASE e.name = "WorkspacesChanged" ->
           LET d == DictFrom(e.workspaces)
               F == {i \in 1..Len(d) : d[i].is_focused}
           IN  Ret(win, SomeDict(d),
                   IF v = "tile" /\ F # {}
                   THEN d[CHOOSE i \in F : \A j \in F : j <= i].id
                   ELSE focus,
                   <<>>, "none")
      [] e.name = "WindowsChanged" ->
           Ret(SomeDict(DictFrom([i \in 1..Len(e.windows) |->
                                     augment(v, e.windows[i])])),
               ws, focus, <<>>, "none")
      [] e.name = "WindowOpenedOrChanged" ->
           IF win.isNone THEN Raise("AttributeError")
           ELSE LET w == e.window
                    is_new == w.id \notin DictIds(win.items)
                    moved == /\ ~is_new
                             /\ DictGet(win.items, w.id).workspace_id
                                    # w.workspace_id
                    d == DictPut(win.items, augment(v, w))
                    need_check == IF v = "tile"
                                  THEN is_new \/ (moved /\ c.on_move)
                                  ELSE is_new
                IN  Ret(SomeDict(d), ws, focus,
                        IF need_check THEN window_creation(v, c, d, w)
                        ELSE <<>>,
                        "none")
      [] e.name = "WindowClosed" ->
           IF win.isNone THEN Raise("AttributeError")
           ELSE IF e.id \notin DictIds(win.items)
           THEN IF v = "tile" THEN Raise("KeyError") ELSE Same
           ELSE LET d == DictPop(win.items, e.id)
                IN  Ret(SomeDict(d), ws, focus,
                        window_closed(v, c, d, DictGet(win.items, e.id)),
                        "none")
      [] e.name = "WindowLayoutsChanged" ->
           LET r == layouts_changed(v, win, e.changes)
           IN  Ret(r.win, ws, focus, <<>>, r.err)
      [] e.name = "WindowUrgencyChanged" ->
           IF v # "tile" THEN Same
           ELSE IF win.isNone THEN Raise("TypeError")
           ELSE IF e.id \notin DictIds(win.items) THEN Raise("KeyError")
           ELSE Ret(SomeDict(DictPut(win.items,
                       [DictGet(win.items, e.id) EXCEPT !.is_urgent = e.urgent])),
                    ws, focus, <<>>, "none")
      [] e.name = "WorkspaceUrgencyChanged" ->
           IF v # "tile" THEN Same
           ELSE IF ws.isNone THEN Raise("TypeError")
           ELSE IF e.id \notin DictIds(ws.items) THEN Raise("KeyError")
           ELSE Ret(win, SomeDict(DictPut(ws.items,
                       [DictGet(ws.items, e.id) EXCEPT !.is_urgent = e.urgent])),
                    focus, <<>>, "none")
      [] e.name = "WorkspaceActivated" ->
           IF v # "tile" \/ ~e.focused THEN Same
           ELSE IF ws.isNone THEN Ret(win, ws, e.id, <<>>, "TypeError")
           ELSE IF focus \notin DictIds(ws.items)
           THEN Ret(win, ws, e.id, <<>>, "KeyError")
           ELSE Ret(win, SomeDict(DictPut(ws.items,
                       [DictGet(ws.items, focus) EXCEPT !.is_focused = FALSE])),
                    e.id, <<>>, "none")

\* How many of the commands a call wants are issued: all of them, or, in
\* TileManager, those up to one whose reply is an error (action() raises).
FailPoints(v, cmds) == IF v = "ipc" THEN 0..Len(cmds) ELSE {0}

\* The reference window set (ghost): the windows of the latest full replace,
\* plus those opened or changed since, minus those closed since, each with
\* the layout of the latest layout change after that. Empty until the first
\* full replace.
RefStep(ref, full, e) ==
    CASE e.name = "WindowsChanged" ->
           {e.windows[i] : i \in {i \in 1..Len(e.windows) :
                \A j \in (i + 1)..Len(e.windows) :
                    e.windows[j].id # e.windows[i].id}}
      [] full /\ e.name = "WindowOpenedOrChanged" ->
           {w \in ref : w.id # e.window.id} \cup {e.window}
      [] full /\ e.name = "WindowClosed" ->
           {w \in ref : w.id # e.id}
      [] full /\ e.name = "WindowLayoutsChanged" ->
           {LET K == {k \in 1..Len(e.changes) : e.changes[k].id = w.id}
            IN  IF K = {} THEN w
                ELSE [w EXCEPT !.layout =
                        e.changes[CHOOSE k \in K : \A j \in K : j <= k].layout]
            : w \in ref}
      [] OTHER -> ref

\* The handler is given event e.
Handle(e) ==
    /\ hist.n < MaxTileEvents
    /\ terr = "none"
    /\ LET r == tile_event(variant, cfg, win_state, wspace_state, focus_ws, e)
       IN  /\ win_state' = r.win
           /\ wspace_state' = r.ws
           /\ focus_ws' = r.focus
           /\ \E f \in FailPoints(variant, r.cmds) :
                /\ issued' = IF f = 0 THEN r.cmds ELSE SubSeq(r.cmds, 1, f)
                /\ terr' = IF f = 0 THEN r.err ELSE "NiriError"
    /\ tev' = e
    /\ hist' = [n |-> hist.n + 1,
                win_full |-> hist.win_full \/ e.name = "WindowsChanged",
                ws_full |-> hist.ws_full \/ e.name = "WorkspacesChanged",
                ref |-> RefStep(hist.ref, hist.win_full, e)]
    /\ before' = [hist |-> hist, ws |-> wspace_state, win |-> win_state,
                  focus |-> focus_ws]
    /\ UNCHANGED cfg
    /\ UNCHANGED <<variant, stream, wire, _msg_queue, _incomplete, pc, resp,
                   returned, eof_seen, error>>
    /\ UNCHANGED lvars
    /\ UNCHANGED dvars
    /\ UNCHANGED wvars

\* Window lists of a full replace: windows 1..k, the first of them tiled,
\* floating, or on the other workspace.
WindowLists ==
    {[i \in 1..k |->
        Window(i, IF i = 1 /\ kind = "other" THEN 2 ELSE 1,
               i = 1 /\ kind = "floating",
               IF i = 1 /\ kind = "floating" THEN <<>> ELSE <<i, 1>>)]
     : k \in 0..MaxWin, kind \in {"tiled", "floating", "other"}}

\* The windows of WindowOpenedOrChanged events: on the first workspace
\* floating (no position in the scrolling layout) or tiled at any position,
\* on the other workspace tiled in the first column.
OpenedWindows ==
    {Window(i, 1, FALSE, pos) : i \in WinIds, pos \in Positions}
    \cup {Window(i, 1, TRUE, <<>>) : i \in WinIds}
    \cup {Window(i, 2, FALSE, <<1, 1>>) : i \in WinIds}

\* The change lists of WindowLayoutsChanged events: one change that puts a
\* window in column 2, or one change each to the first and the last window,
\* in either order.
LayoutChanges ==
    {<<[id |-> i, layout |-> <<2, 1>>]>> : i \in WinIds}
    \cup {<<[id |-> p[1], layout |-> <<1, 1>>],
             [id |-> p[2], layout |-> <<2, 1>>]>>
          : p \in {<<1, MaxWin>>, <<MaxWin, 1>>}}

\* Workspace lists of a full replace: workspaces 1..k, the first of them
\* focused or none.
WorkspaceLists ==
    {[i \in 1..k |-> [id |-> i, is_urgent |-> FALSE,
                      is_focused |-> (f /\ i = 1)]]
     : k \in 0..Cardinality(WsIds), f \in BOOLEAN}

OnWorkspacesChanged ==
    \E l \in WorkspaceLists : Handle([workspaces |-> l, name |-> "WorkspacesChanged"])

OnWindowsChanged ==
    \E l \in WindowLists : Handle([name |-> "WindowsChanged", windows |-> l])

OnWindowOpenedOrChanged ==
    \E w \in OpenedWindows : Handle([name |-> "WindowOpenedOrChanged", window |-> w])

OnWindowClosed ==
    \E i \in WinIds : Handle([name |-> "WindowClosed", id |-> i])

OnWindowLayoutsChanged ==
    \E l \in LayoutChanges : Handle([name |-> "WindowLayoutsChanged", changes |-> l])

\* A window or a workspace becomes urgent (the mirrors take them in as not
\* urgent).
OnWindowUrgencyChanged ==
    \E i \in WinIds :
        Handle([name |-> "WindowUrgencyChanged", id |-> i, urgent |-> TRUE])

OnWorkspaceUrgencyChanged ==
    \E i \in WsIds :
        Handle([name |-> "WorkspaceUrgencyChanged", id |-> i, urgent |-> TRUE])

OnWorkspaceActivated ==
    \E i \in WsIds, f \in BOOLEAN :
        Handle([name |-> "WorkspaceActivated", id |-> i, focused |-> f])

\* TileManager(n, maximize_solos) has one solo toggle; niri_tile_to_n.py has
\* -x, -xc and -m.
Configs(v) ==
    {c \in [n : 1..DefaultN, maximize_solos : BOOLEAN, on_close : BOOLEAN,
            on_move : BOOLEAN]
       : v = "ipc" => (c.on_close = c.maximize_solos /\ ~c.on_move)}

\* TileManager(): win_state = {}, wspace_state = {};
\* niri_tile_to_n.py: win_state = None, wspace_state = None
InitTile ==
    /\ variant \in {"ipc", "tile"}
    /\ cfg \in Configs(variant)
    /\ win_state = IF variant = "ipc" THEN SomeDict(<<>>) ELSE NoneDict
    /\ wspace_state = IF variant = "ipc" THEN SomeDict(<<>>) ELSE NoneDict
    /\ focus_ws = 0
    /\ tev = NoEvent
    /\ issued = <<>>
    /\ terr = "none"
    /\ hist = NoHist
    /\ before = [hist |-> NoHist, ws |-> wspace_state, win |-> win_state,
                 focus |-> 0]
    /\ stream = <<>>
    /\ wire = <<>>
    /\ _msg_queue = <<>>
    /\ _incomplete = InitIncomplete(variant)
    /\ pc = "start"
    /\ resp = EmptyDict
    /\ returned = <<>>
    /\ eof_seen = FALSE
    /\ error = NoError
    /\ InitLoopIdle
    /\ InitDispatcher
    /\ InitWallpaperIdle

NextTile ==
    \/ OnWorkspacesChanged
    \/ OnWindowsChanged
    \/ OnWindowOpenedOrChanged
    \/ OnWindowClosed
    \/ OnWindowLayoutsChanged
    \/ OnWindowUrgencyChanged
    \/ OnWorkspaceUrgencyChanged
    \/ OnWorkspaceActivated

SpecTile == InitTile /\ [][NextTile]_vars

\* ------------------------------------------------------------------------
\* SpecWallpaper: WallpaperManager, in its two implementations
\* (variant "ipc": handlers.py; variant "wallpaper": wallpaper_per_workspace.py)

\* Image files in the wallpapers directory.
MaxImages == 2
\* Workspace ids the compositor uses for the wallpaper manager.
MaxWorkspaces == 3
\* Rotations of one run.
MaxRotations == 2
\* Assignments, events and rotations of one run, taken together.
MaxWallOps == 3

\* The manager has gone through fewer operations than a run may have (the
\* initial assignment of wallpaper_per_workspace.py is one of them).
MoreOps ==
    wlog.events + wlog.rotations + (IF variant = "wallpaper" THEN 1 ELSE 0)
        < MaxWallOps

\* ws.get("output") of a workspace that is on no output
NoOutput == ""

\* One key of a dict with its value.
Binding(k, x) == [v |-> x, id |-> k]

\* {d[k] for k in d}
DictValues(d) == {d[i].v : i \in 1..Len(d)}

\* random.shuffle(shuffled): every order of the pool
Shuffles(pool) ==
    {[i \in 1..Len(pool) |-> pool[f[i]]]
     : f \in {g \in [1..Len(pool) -> 1..Len(pool)]
                : \A i, j \in 1..Len(pool) : i # j => g[i] # g[j]}}

\* shuffled[i % len(shuffled)], i counted from 0
cyclic(shuffled, i) == shuffled[(i % Len(shuffled)) + 1]

\* A choice among all the images, used or not.
available_used_or_not(pool, wp) == {pool[i] : i \in 1..Len(pool)}

\* [w for w in all_wallpapers if w not in used] or all_wallpapers
available(pool, wp) ==
    LET free == {pool[i] : i \in 1..Len(pool)} \ DictValues(wp)
    IN  IF free = {} THEN {pool[i] : i \in 1..Len(pool)} ELSE free

\* An apply that never runs the command.
_apply_nothing(st, ws) == <<>>

\* _apply / apply_wallpaper: the swww command for workspace ws, if it has
\* both a wallpaper and an output
_apply(st, ws) ==
    IF ws \in DictIds(st.wp) /\ ws \in DictIds(st.outs)
    THEN <<[output |-> DictGet(st.outs, ws).v, img |-> DictGet(st.wp, ws).v]>>
    ELSE <<>>

\* for ws_id in ws_ids: self._apply(ws_id)
RECURSIVE apply_all(_, _)
apply_all(st, ids) ==
    IF ids = <<>> THEN <<>>
    ELSE _apply(st, Head(ids)) \o apply_all(st, Tail(ids))

\* handlers.py _rotate, under the lock:
\* for i, ws_id in enumerate(self.workspace_outputs): bind shuffled[i % len]
RECURSIVE _rotate(_, _, _)
_rotate(st, shuffled, i) ==
    IF i >= Len(st.outs) THEN st
    ELSE _rotate([st EXCEPT !.wp = DictPut(@, Binding(st.outs[i + 1].id,
                                                      cyclic(shuffled, i)))],
                 shuffled, i + 1)

\* wallpaper_per_workspace.py assign_wallpapers, under the lock:
\* for i, ws in enumerate(workspaces): if output: bind shuffled[i % len]
RECURSIVE assign_wallpapers(_, _, _, _)
assign_wallpapers(st, workspaces, shuffled, i) ==
    IF i >= Len(workspaces) THEN st
    ELSE LET ws == workspaces[i + 1]
         IN  assign_wallpapers(
               IF ws.output = NoOutput THEN st
               ELSE [st EXCEPT
                       !.outs = DictPut(@, Binding(ws.id, ws.output)),
                       !.wp = DictPut(@, Binding(ws.id, cyclic(shuffled, i))),
                       !.act = IF ws.is_active
                               THEN DictPut(@, Binding(ws.output, ws.id))
                               ELSE @,
                       !.cur = IF ws.is_focused THEN ws.id ELSE @],
               workspaces, shuffled, i + 1)

\* The workspaces a rotation binds, in the order it binds them.
rotation_ids(v, st, workspaces) ==
    IF v = "ipc" THEN [i \in 1..Len(st.outs) |-> st.outs[i].id]
    ELSE LET with == SelectSeq(workspaces, LAMBDA ws : ws.output # NoOutput)
         IN  [i \in 1..Len(with) |-> with[i].id]

\* random.choice(available) gave workspace ws the image img while the
\* assignments were wp (ghost).
Pick(ws, img, wp) == [ws |-> ws, img |-> img, used |-> DictValues(wp)]

\* The loop of the WorkspacesChanged handler over the listed workspaces:
\* every outcome the random choices allow.
RECURSIVE changed_loop(_, _, _, _)
changed_loop(v, pool, st, workspaces) ==
    IF workspaces = <<>> THEN {st}
    ELSE LET ws == Head(workspaces)
             s1 == [st EXCEPT
                      !.outs = IF ws.output # NoOutput
                               THEN DictPut(@, Binding(ws.id, ws.output))
                               ELSE @,
                      !.cur = IF ws.is_focused THEN ws.id ELSE @]
             picks == IF v = "wallpaper" /\ ws.id \notin DictIds(st.wp)
                      THEN available(pool, st.wp)
                      ELSE {}
         IN  IF picks = {}
             THEN changed_loop(v, pool, s1, Tail(workspaces))
             ELSE UNION {changed_loop(v, pool,
                            [s1 EXCEPT
                               !.wp = DictPut(@, Binding(ws.id, img)),
                               !.picks = Append(@, Pick(ws.id, img, st.wp))],
                            Tail(workspaces))
                         : img \in picks}

\* cleanup removed: a workspace that is not listed loses its wallpaper, and
\* with it its output
cleanup(st, workspaces) ==
    LET current_ids == {workspaces[i].id : i \in 1..Len(workspaces)}
    IN  [st EXCEPT
           !.wp = SelectSeq(@, LAMBDA b : b.id \in current_ids),
           !.outs = SelectSeq(@, LAMBDA b : \/ b.id \in current_ids
                                           \/ b.id \notin DictIds(st.wp))]

\* The manager's dicts and focus as one record.
WallState ==
    [timers |-> timers, picks |-> <<>>,
     wp |-> workspace_wallpapers, outs |-> workspace_outputs,
     act |-> active_workspaces, cur |-> current_workspace_id]

SetWallState(st) ==
    /\ workspace_wallpapers' = st.wp
    /\ workspace_outputs' = st.outs
    /\ active_workspaces' = st.act
    /\ current_workspace_id' = st.cur

\* The last operation, and how many events and rotations there were (ghost).
Log(op, shuffled, known, applied, err) ==
    [op |-> op, shuffled |-> shuffled, known |-> known, applied |-> applied,
     err |-> err,
     events |-> wlog.events + (IF op \in {"WorkspacesChanged",
                                           "WorkspaceActivated"} THEN 1 ELSE 0),
     rotations |-> wlog.rotations + (IF op = "rotate" THEN 1 ELSE 0),
     started |-> TRUE,
     ev |-> <<>>, picks |-> <<>>, was |-> WallState, gone |-> wlog.gone]

\* The ids of the workspaces of a list.
ListedIds(workspaces) == {workspaces[i].id : i \in 1..Len(workspaces)}

\* The log of an event handler's run: the event and the choices it made.
\* A workspace is gone when the last WorkspacesChanged event did not list
\* it and nothing has named it since.
EventLog(op, applied, err, ev, picks) ==
    [Log(op, <<>>, <<>>, applied, err) EXCEPT
       !.ev = ev,
       !.picks = picks,
       !.gone = IF op = "WorkspacesChanged"
                THEN (1..MaxWorkspaces) \ ListedIds(ev)
                ELSE @ \ {ev.id}]

\* schedule_rotation that starts a new timer and leaves the stored one alone
schedule_rotation_without_cancel(ts) == Append(ts, "pending")

\* schedule_rotation: cancel self.timer if there is one, start a new timer
schedule_rotation(ts) ==
    Append([i \in 1..Len(ts) |->
              IF i = Len(ts) /\ ts[i] = "pending" THEN "cancelled" ELSE ts[i]],
           "pending")

WallUnchanged ==
    /\ UNCHANGED all_wallpapers
    /\ UNCHANGED <<lock, th, trace>>
    /\ UNCHANGED <<variant, stream, wire, _msg_queue, _incomplete, pc, resp,
                   returned, eof_seen, error>>
    /\ UNCHANGED lvars
    /\ UNCHANGED dvars
    /\ UNCHANGED tvars

\* The ids of a set of workspaces in ascending order.
RECURSIVE Ascending(_)
Ascending(ids) ==
    IF ids = {} THEN <<>>
    ELSE LET m == CHOOSE x \in ids : \A y \in ids : x <= y
         IN  <<m>> \o Ascending(ids \ {m})

\* Workspace lists of an event or of a reply to "Workspaces": any of the
\* workspaces in ascending order, workspace 2 on an output or on none,
\* the last one focused or none.
WorkspaceReplies ==
    {[i \in 1..Len(ids) |-> [output |-> IF ids[i] = h THEN NoOutput ELSE "A",
                             id |-> ids[i],
                             is_focused |-> (f /\ i = Len(ids)),
                             is_active |-> (f /\ i = Len(ids))]]
     : ids \in {Ascending(x) : x \in SUBSET (1..MaxWorkspaces)},
       h \in {0, 2}, f \in BOOLEAN}

\* rotate_wallpapers / _rotate, and the initial assignment of main():
\* assign, apply, schedule the next rotation (ts: the timers as they are).
Rotation(op, workspaces, shuffled, ts) ==
    LET st == IF variant = "ipc" THEN _rotate(WallState, shuffled, 0)
              ELSE IF workspaces = <<>> THEN WallState
              ELSE assign_wallpapers(WallState, workspaces, shuffled, 0)
        known == IF variant = "ipc" \/ workspaces # <<>>
                 THEN rotation_ids(variant, WallState, workspaces)
                 ELSE <<>>
        shown == IF variant = "ipc"
                 THEN [i \in 1..Len(st.outs) |-> st.outs[i].id]
                 ELSE [i \in 1..Len(st.act) |-> st.act[i].v]
    IN  /\ SetWallState(st)
        /\ wlog' = [Log(op, shuffled, known, apply_all(st, shown), "none")
                      EXCEPT !.gone = @ \ ListedIds(workspaces)]
        /\ timers' = schedule_rotation(ts)
        /\ WallUnchanged

\* main() of wallpaper_per_workspace.py before the event loop
InitialAssignment ==
    /\ variant = "wallpaper"
    /\ ~wlog.started
    /\ \E workspaces \in WorkspaceReplies, shuffled \in Shuffles(all_wallpapers) :
          Rotation("assign", workspaces, shuffled, timers)

\* The pending timer fires and runs the rotation.
TimerRotate ==
    /\ wlog.started
    /\ wlog.err = "none"
    /\ wlog.rotations < MaxRotations
    /\ MoreOps
    /\ timers # <<>>
    /\ timers[Len(timers)] = "pending"
    /\ \E workspaces \in (IF variant = "ipc" THEN {<<>>} ELSE WorkspaceReplies),
          shuffled \in Shuffles(all_wallpapers) :
          Rotation("rotate", workspaces, shuffled,
                   [timers EXCEPT ![Len(timers)] = "fired"])

\* rotate_wallpapers / _rotate called by a caller other than the timer
\* of a manager that has scheduled its rotation, while that timer may still
\* be pending.
CallRotate ==
    /\ wlog.started
    /\ wlog.err = "none"
    /\ wlog.rotations < MaxRotations
    /\ MoreOps
    /\ timers # <<>>
    /\ \E workspaces \in (IF variant = "ipc" THEN {<<>>} ELSE WorkspaceReplies),
          shuffled \in Shuffles(all_wallpapers) :
          Rotation("rotate", workspaces, shuffled, timers)

\* The WorkspacesChanged handler.
on_workspaces_changed ==
    /\ wlog.started
    /\ wlog.err = "none"
    /\ wlog.events < MaxEvents
    /\ MoreOps
    /\ \E workspaces \in WorkspaceReplies :
         \E st \in changed_loop(variant, all_wallpapers, WallState, workspaces) :
            /\ SetWallState(cleanup(st, workspaces))
            /\ wlog' = EventLog("WorkspacesChanged", <<>>, "none",
                                workspaces, st.picks)
    /\ UNCHANGED timers
    /\ WallUnchanged

\* The WorkspaceActivated handler: a newly focused workspace gets a
\* wallpaper if it has none (random.choice of an empty pool raises
\* IndexError), and its wallpaper is applied.
on_workspace_activated ==
    /\ wlog.started
    /\ wlog.err = "none"
    /\ wlog.events < MaxEvents
    /\ MoreOps
    /\ \E ws_id \in 1..MaxWorkspaces, focused \in BOOLEAN :
         LET s1 == [WallState EXCEPT !.cur = ws_id]
             ev == [id |-> ws_id, focused |-> focused]
         IN  IF ~focused \/ current_workspace_id = ws_id
             THEN /\ SetWallState(WallState)
                  /\ wlog' = EventLog("WorkspaceActivated", <<>>, "none",
                                      ev, <<>>)
             ELSE IF ws_id \in DictIds(workspace_wallpapers)
             THEN /\ SetWallState(s1)
                  /\ wlog' = EventLog("WorkspaceActivated", _apply(s1, ws_id),
                                      "none", ev, <<>>)
             ELSE IF all_wallpapers = <<>>
             THEN /\ SetWallState(s1)
                  /\ wlog' = EventLog("WorkspaceActivated", <<>>,
                                      "IndexError", ev, <<>>)
             ELSE \E img \in available(all_wallpapers, workspace_wallpapers) :
                    LET s2 == [s1 EXCEPT !.wp = DictPut(@, Binding(ws_id, img))]
                    IN  /\ SetWallState(s2)
                        /\ wlog' = EventLog(
                              "WorkspaceActivated", _apply(s2, ws_id), "none",
                              ev, <<Pick(ws_id, img, workspace_wallpapers)>>)
    /\ UNCHANGED timers
    /\ WallUnchanged

\* WallpaperManager(): the pool is scanned and the dicts are empty; the
\* constructor of handlers.py schedules the rotation if the pool is not
\* empty, main() of wallpaper_per_workspace.py exits if it is.
InitWallpaper ==
    /\ variant \in {"ipc", "wallpaper"}
    /\ \E p \in (IF variant = "ipc" THEN 0 ELSE 1)..MaxImages :
          all_wallpapers = [i \in 1..p |-> i]
    /\ workspace_wallpapers = <<>>
    /\ workspace_outputs = <<>>
    /\ active_workspaces = <<>>
    /\ current_workspace_id = 0
    /\ timers = IF variant = "ipc" /\ all_wallpapers # <<>>
                THEN <<"pending">> ELSE <<>>
    /\ wlog = [NoLog EXCEPT !.started = (variant = "ipc")]
    /\ InitThreadsIdle
    /\ stream = <<>>
    /\ wire = <<>>
    /\ _msg_queue = <<>>
    /\ _incomplete = InitIncomplete(variant)
    /\ pc = "start"
    /\ resp = EmptyDict
    /\ returned = <<>>
    /\ eof_seen = FALSE
    /\ error = NoError
    /\ InitLoopIdle
    /\ InitDispatcher
    /\ InitTileIdle

NextWallpaper ==
    \/ InitialAssignment
    \/ TimerRotate
    \/ CallRotate
    \/ on_workspaces_changed
    \/ on_workspace_activated

SpecWallpaper == InitWallpaper /\ [][NextWallpaper]_vars

\* ------------------------------------------------------------------------
\* SpecThreads: the WallpaperManager one step of a thread at a time: the
\* event thread ("main") and the timer thread, the lock, the swww command

\* dict.get(ws_id) of a workspace without an entry: None
NoWallpaper == 0

\* self.workspace_wallpapers.get(ws_id)
get_wallpaper(wp, ws) ==
    IF ws \in DictIds(wp) THEN DictGet(wp, ws).v ELSE NoWallpaper

\* self.workspace_outputs.get(ws_id)
get_output(outs, ws) ==
    IF ws \in DictIds(outs) THEN DictGet(outs, ws).v ELSE NoOutput

\* An apply that returns early only when both are missing.
runs_command_with_either(l) == l.wallpaper # NoWallpaper \/ l.output # NoOutput

\* if not wallpaper or not output: return
runs_command(l) == l.wallpaper # NoWallpaper /\ l.output # NoOutput

\* How subprocess.run(["swww", ...]) can end: the program exits with 0 or
\* with another code (not looked at: no check=True), or it cannot be
\* started and subprocess.run raises.
CommandOutcomes == {"exit_zero", "exit_nonzero", "FileNotFoundError"}

\* Workspaces the events and replies of SpecThreads name.
MaxNamed == 2

\* Workspace lists of SpecThreads: workspaces 1..k on output A, the last one
\* focused and active or none.
ThreadReplies ==
    {r \in WorkspaceReplies :
        /\ Len(r) <= MaxNamed
        /\ \A i \in 1..Len(r) : r[i].id = i /\ r[i].output # NoOutput}

\* The thread goes on to apply the first workspace of ids, then the others,
\* and to schedule the rotation when none is left.
ApplyFrom(l, ids) ==
    IF ids = <<>> THEN [l EXCEPT !.pc = "schedule", !.todo = <<>>]
    ELSE [l EXCEPT !.pc = "apply_acquire", !.ws = Head(ids),
                   !.todo = Tail(ids), !.after = "apply_next"]

\* Where the thread is once its call of apply has returned to after.
AfterApply(l) ==
    IF l.after = "apply_next" THEN ApplyFrom(l, l.todo) ELSE [l EXCEPT !.pc = l.after]

\* The process runs and thread t has not ended (the timer threads are
\* daemon threads: they end with the process).
Alive(t) == th["main"].pc # "exited" /\ th[t].pc \notin {"dead", "exited"}

\* Where a thread is after "with self.lock:" let it in.
Body(p) ==
    CASE p = "act_acquire" -> "act_body"
      [] p = "assign_acquire" -> "assign_body"
      [] p = "chg_acquire" -> "chg_body"
      [] p = "rot_acquire" -> "rot_body"
      [] p = "active_acquire" -> "active_body"
      [] p = "apply_acquire" -> "apply_body"

AcquirePcs ==
    {"act_acquire", "assign_acquire", "chg_acquire", "rot_acquire",
     "active_acquire", "apply_acquire"}

\* Thread t reads or writes self.timer: noted when it does not hold the lock.
TimerSlotAccess(t, op) ==
    IF lock = t THEN trace.unlocked
    ELSE trace.unlocked \cup
           {[t |-> t, op |-> op, state |-> "timer",
             concurrent |-> \E u \in Threads \ {t} :
                               th[u].pc \notin {"idle", "dead", "exited"}]}

\* A thread finished handling an event or a rotation.
Counted(t, op) ==
    [wlog EXCEPT !.events = @ + (IF op = "event" THEN 1 ELSE 0),
                 !.rotations = @ + (IF op = "rotate" THEN 1 ELSE 0)]

\* Where thread t goes when an exception leaves its code: the event thread
\* unwinds out of the loop, a timer thread ends.
Raised(t) == IF t = "main" THEN "raised" ELSE "dead"

ThreadsFrame ==
    /\ UNCHANGED all_wallpapers
    /\ UNCHANGED <<variant, stream, wire, _msg_queue, _incomplete, pc, resp,
                   returned, eof_seen, error>>
    /\ UNCHANGED lvars
    /\ UNCHANGED dvars
    /\ UNCHANGED tvars

MapsUnchanged ==
    UNCHANGED <<workspace_wallpapers, workspace_outputs, active_workspaces,
                current_workspace_id>>

\* with self.lock: the thread gets the lock when it is free.
Acquire ==
    /\ \E t \in Threads :
          /\ Alive(t)
          /\ th[t].pc \in AcquirePcs
          /\ lock = "free"
          /\ lock' = t
          /\ th' = [th EXCEPT ![t].pc = Body(@)]
    /\ MapsUnchanged
    /\ UNCHANGED <<timers, wlog, trace>>
    /\ ThreadsFrame

\* The event loop reads a WorkspaceActivated event and calls the handler:
\* an event that is not focused returns at once.
ReadWorkspaceActivated ==
    /\ Alive("main")
    /\ th["main"].pc = "idle"
    /\ wlog.events < MaxEvents
    /\ MoreOps
    /\ \E ws_id \in 1..MaxNamed, focused \in BOOLEAN :
          IF focused
          THEN /\ th' = [th EXCEPT !["main"].pc = "act_acquire",
                                   !["main"].ws = ws_id,
                                   !["main"].after = "idle"]
               /\ trace' = [trace EXCEPT !.since = @ \cup {"activated"}]
               /\ UNCHANGED wlog
          ELSE /\ UNCHANGED <<th, trace>>
               /\ wlog' = Counted("main", "event")
    /\ MapsUnchanged
    /\ UNCHANGED <<lock, timers>>
    /\ ThreadsFrame

\* A handler whose early return (the workspace is the tracked one already)
\* leaves without releasing the lock.
ActivatedBody_return_keeps_lock ==
    /\ Alive("main")
    /\ th["main"].pc = "act_body"
    /\ lock = "main"
    /\ LET ws_id == th["main"].ws
       IN  IF current_workspace_id = ws_id
           THEN /\ th' = [th EXCEPT !["main"].pc = "idle"]
                /\ wlog' = Counted("main", "event")
                /\ MapsUnchanged
                /\ UNCHANGED lock
           ELSE /\ current_workspace_id' = ws_id
                /\ lock' = "free"
                /\ UNCHANGED <<workspace_outputs, active_workspaces, wlog>>
                /\ IF variant = "ipc"
                   THEN /\ th' = [th EXCEPT !["main"].pc = "assign_acquire"]
                        /\ UNCHANGED workspace_wallpapers
                   ELSE /\ th' = [th EXCEPT !["main"].pc = "apply_acquire"]
                        /\ IF ws_id \in DictIds(workspace_wallpapers)
                           THEN UNCHANGED workspace_wallpapers
                           ELSE \E img \in available(all_wallpapers,
                                                     workspace_wallpapers) :
                                  workspace_wallpapers' =
                                     DictPut(workspace_wallpapers,
                                             Binding(ws_id, img))
    /\ UNCHANGED <<timers, trace>>
    /\ ThreadsFrame

\* Under the lock: the tracked focus is compared and set; the script also
\* assigns here, handlers.py leaves that to _assign_wallpaper.
ActivatedBody ==
    /\ Alive("main")
    /\ th["main"].pc = "act_body"
    /\ lock = "main"
    /\ lock' = "free"
    /\ LET ws_id == th["main"].ws
       IN  IF current_workspace_id = ws_id
           THEN /\ th' = [th EXCEPT !["main"].pc = "idle"]
                /\ wlog' = Counted("main", "event")
                /\ MapsUnchanged
           ELSE /\ current_workspace_id' = ws_id
                /\ UNCHANGED <<workspace_outputs, active_workspaces, wlog>>
                /\ IF variant = "ipc"
                   THEN /\ th' = [th EXCEPT !["main"].pc = "assign_acquire"]
                        /\ UNCHANGED workspace_wallpapers
                   ELSE /\ th' = [th EXCEPT !["main"].pc = "apply_acquire"]
                        /\ IF ws_id \in DictIds(workspace_wallpapers)
                           THEN UNCHANGED workspace_wallpapers
                           ELSE \E img \in available(all_wallpapers,
                                                     workspace_wallpapers) :
                                  workspace_wallpapers' =
                                     DictPut(workspace_wallpapers,
                                             Binding(ws_id, img))
    /\ UNCHANGED <<timers, trace>>
    /\ ThreadsFrame

\* handlers.py _assign_wallpaper, under the lock.
AssignBody ==
    /\ Alive("main")
    /\ th["main"].pc = "assign_body"
    /\ lock = "main"
    /\ lock' = "free"
    /\ LET ws_id == th["main"].ws
       IN  IF ws_id \in DictIds(workspace_wallpapers)
           THEN /\ th' = [th EXCEPT !["main"].pc = "apply_acquire"]
                /\ UNCHANGED workspace_wallpapers
           ELSE IF all_wallpapers = <<>>
           THEN /\ th' = [th EXCEPT !["main"].pc = Raised("main"),
                                    !["main"].exc = "IndexError"]
                /\ UNCHANGED workspace_wallpapers
           ELSE /\ th' = [th EXCEPT !["main"].pc = "apply_acquire"]
                /\ \E img \in available(all_wallpapers, workspace_wallpapers) :
                      workspace_wallpapers' =
                         DictPut(workspace_wallpapers, Binding(ws_id, img))
    /\ UNCHANGED <<workspace_outputs, active_workspaces, current_workspace_id>>
    /\ UNCHANGED <<timers, wlog, trace>>
    /\ ThreadsFrame

\* The event loop reads a WorkspacesChanged event and calls the handler.
ReadWorkspacesChanged ==
    /\ Alive("main")
    /\ th["main"].pc = "idle"
    /\ wlog.events < MaxEvents
    /\ MoreOps
    /\ \E workspaces \in ThreadReplies :
          th' = [th EXCEPT !["main"].pc = "chg_acquire",
                           !["main"].workspaces = workspaces]
    /\ trace' = [trace EXCEPT !.since = IF th["timer"].pc = "idle" THEN {}
                                        ELSE {"overlapped"}]
    /\ MapsUnchanged
    /\ UNCHANGED <<lock, timers, wlog>>
    /\ ThreadsFrame

\* Under the lock: the loop over the listed workspaces and the cleanup.
ChangedBody ==
    /\ Alive("main")
    /\ th["main"].pc = "chg_body"
    /\ lock = "main"
    /\ lock' = "free"
    /\ \E st \in changed_loop(variant, all_wallpapers, WallState,
                              th["main"].workspaces) :
          SetWallState(cleanup(st, th["main"].workspaces))
    /\ th' = [th EXCEPT !["main"].pc = "idle", !["main"].workspaces = <<>>]
    /\ wlog' = Counted("main", "event")
    /\ UNCHANGED <<timers, trace>>
    /\ ThreadsFrame

\* The rotation starts: assign_wallpapers of wallpaper_per_workspace.py has
\* asked niri for the workspaces; get_workspaces() returned the reply, or []
\* when the query failed, and then nothing is assigned.
Asked(v, l, workspaces) ==
    [l EXCEPT !.pc = IF v = "ipc" \/ workspaces # <<>> THEN "rot_acquire"
                     ELSE "active_acquire",
              !.workspaces = workspaces]

\* The pending timer fires: a timer thread starts the rotation
\* (wallpaper_per_workspace.py asks niri for the workspaces first).
Fire ==
    /\ Alive("timer")
    /\ th["timer"].pc = "idle"
    /\ wlog.rotations < MaxRotations
    /\ MoreOps
    /\ timers # <<>>
    /\ timers[Len(timers)] = "pending"
    /\ timers' = [timers EXCEPT ![Len(timers)] = "fired"]
    /\ \E workspaces \in (IF variant = "ipc" THEN {<<>>} ELSE ThreadReplies) :
          th' = [th EXCEPT !["timer"] = Asked(variant, @, workspaces)]
    /\ trace' = [trace EXCEPT
                   !.fired_after_stop = @ \/ trace.stopped,
                   !.since = @ \cup {IF th["main"].pc \in {"chg_acquire",
                                                           "chg_body"}
                                     THEN "overlapped" ELSE "rotate"}]
    /\ MapsUnchanged
    /\ UNCHANGED <<lock, wlog>>
    /\ ThreadsFrame

\* Under the lock: shuffle and assign; handlers.py also takes the list of
\* workspaces to apply here.
RotateBody ==
    /\ \E t \in Threads :
          /\ Alive(t)
          /\ th[t].pc = "rot_body"
          /\ lock = t
          /\ \E shuffled \in Shuffles(all_wallpapers) :
                IF variant = "ipc"
                THEN /\ SetWallState(_rotate(WallState, shuffled, 0))
                     /\ th' = [th EXCEPT
                                 ![t] = ApplyFrom(@,
                                          [i \in 1..Len(workspace_outputs)
                                             |-> workspace_outputs[i].id])]
                ELSE /\ SetWallState(assign_wallpapers(
                                        WallState, th[t].workspaces, shuffled, 0))
                     /\ th' = [th EXCEPT ![t].pc = "active_acquire",
                                         ![t].workspaces = <<>>]
    /\ lock' = "free"
    /\ UNCHANGED <<timers, wlog, trace>>
    /\ ThreadsFrame

\* apply_active_wallpapers, under the lock: the active workspace of every
\* output.
ActiveBody ==
    /\ \E t \in Threads :
          /\ Alive(t)
          /\ th[t].pc = "active_body"
          /\ lock = t
          /\ th' = [th EXCEPT
                      ![t] = ApplyFrom(@, [i \in 1..Len(active_workspaces)
                                             |-> active_workspaces[i].v])]
    /\ lock' = "free"
    /\ MapsUnchanged
    /\ UNCHANGED <<timers, wlog, trace>>
    /\ ThreadsFrame

\* A thread has returned from the call it was in: the event is handled.
Returned(t, p) ==
    IF t = "main" /\ p = "idle" THEN Counted(t, "event") ELSE wlog

\* What the maps hold for ws when a call of apply looks it up (ghost).
Applying(ws, wp, outs, done) ==
    [ws |-> ws,
     had_wallpaper |-> \E i \in 1..Len(wp) : wp[i].id = ws,
     had_output |-> \E i \in 1..Len(outs) : outs[i].id = ws,
     img |-> IF \E i \in 1..Len(wp) : wp[i].id = ws
             THEN (CHOOSE b \in {wp[i] : i \in 1..Len(wp)} : b.id = ws).v
             ELSE 0,
     out |-> IF \E i \in 1..Len(outs) : outs[i].id = ws
             THEN (CHOOSE b \in {outs[i] : i \in 1..Len(outs)} : b.id = ws).v
             ELSE "",
     cmds |-> <<>>, done |-> done]

\* _apply / apply_wallpaper, under the lock: the two lookups; without a
\* wallpaper or without an output the call returns.
ApplyLookup ==
    /\ \E t \in Threads :
          /\ Alive(t)
          /\ th[t].pc = "apply_body"
          /\ lock = t
          /\ LET l == [wallpaper |-> get_wallpaper(workspace_wallpapers, th[t].ws),
                       output |-> get_output(workspace_outputs, th[t].ws)]
                 next == IF runs_command(l) THEN "apply_run" ELSE th[t].after
             IN  /\ th' = [th EXCEPT
                             ![t] = IF runs_command(l)
                                    THEN [@ EXCEPT !.pc = "apply_run",
                                                   !.wallpaper = l.wallpaper,
                                                   !.output = l.output]
                                    ELSE AfterApply(@)]
                 /\ trace' = [trace EXCEPT !.applies[t] =
                                Applying(th[t].ws, workspace_wallpapers,
                                         workspace_outputs, ~runs_command(l))]
                 /\ wlog' = Returned(t, next)
    /\ lock' = "free"
    /\ MapsUnchanged
    /\ UNCHANGED timers
    /\ ThreadsFrame

\* subprocess.run(["swww", "img", wallpaper, "-o", output, ...]): the call
\* returns whatever the exit code is, and raises when swww cannot be started.
ApplyRun ==
    /\ \E t \in Threads :
          /\ Alive(t)
          /\ th[t].pc = "apply_run"
          /\ \E outcome \in CommandOutcomes :
                LET next == IF outcome = "FileNotFoundError" THEN Raised(t)
                            ELSE th[t].after
                IN  /\ th' = [th EXCEPT
                                ![t] = IF outcome = "FileNotFoundError"
                                       THEN [@ EXCEPT !.pc = Raised(t),
                                                      !.exc = outcome]
                                       ELSE AfterApply(
                                              [@ EXCEPT
                                                 !.wallpaper = NoWallpaper,
                                                 !.output = NoOutput])]
                    /\ trace' = [trace EXCEPT
                                   !.applies[t].cmds = Append(@,
                                      [output |-> th[t].output,
                                       img |-> th[t].wallpaper]),
                                   !.applies[t].done = TRUE,
                                   !.shown =
                                      IF outcome = "FileNotFoundError" THEN @
                                      ELSE DictPut(@, Binding(th[t].output,
                                                              th[t].wallpaper)),
                                   !.locked_cmds = @ + (IF lock = t THEN 1 ELSE 0)]
                    /\ wlog' = Returned(t, next)
    /\ MapsUnchanged
    /\ UNCHANGED <<lock, timers>>
    /\ ThreadsFrame

\* schedule_rotation / _schedule_rotation: self.timer is cancelled and
\* replaced, without the lock.
Schedule ==
    /\ \E t \in Threads :
          /\ Alive(t)
          /\ th[t].pc = "schedule"
          /\ th' = [th EXCEPT ![t].pc = "idle"]
          /\ trace' = [trace EXCEPT !.unlocked = TimerSlotAccess(t, "schedule_rotation")]
          /\ wlog' = IF t = "timer" THEN Counted(t, "rotate") ELSE wlog
    /\ timers' = schedule_rotation(timers)
    /\ MapsUnchanged
    /\ UNCHANGED lock
    /\ ThreadsFrame

\* SIGINT or SIGTERM while the event thread waits for the next event (or
\* the end of the stream): wallpaper_per_workspace.py goes to its finally
\* clause, handlers.py leaves the loop with the exception.
InterruptLoop ==
    /\ Alive("main")
    /\ th["main"].pc = "idle"
    /\ th' = [th EXCEPT !["main"].pc = Raised("main")]
    /\ MapsUnchanged
    /\ UNCHANGED <<lock, timers, wlog, trace>>
    /\ ThreadsFrame

\* finally: manager.stop() cancels self.timer, without the lock (handlers.py
\* has no stop: the process ends).
Stop ==
    /\ Alive("main")
    /\ th["main"].pc = "raised"
    /\ IF variant = "ipc"
       THEN /\ th' = [th EXCEPT !["main"].pc = "exited"]
            /\ UNCHANGED <<timers, trace>>
       ELSE /\ th' = [th EXCEPT !["main"].pc = "closing"]
            /\ timers' = [i \in 1..Len(timers) |->
                            IF i = Len(timers) /\ timers[i] = "pending"
                            THEN "cancelled" ELSE timers[i]]
            /\ trace' = [trace EXCEPT !.unlocked = TimerSlotAccess("main", "stop"),
                                      !.stopped = TRUE]
    /\ MapsUnchanged
    /\ UNCHANGED <<lock, wlog>>
    /\ ThreadsFrame

\* niri.close(), the message, and the process ends (and with it the daemon
\* timer threads).
ExitProcess ==
    /\ th["main"].pc = "closing"
    /\ th' = [th EXCEPT !["main"].pc = "exited"]
    /\ MapsUnchanged
    /\ UNCHANGED <<lock, timers, wlog, trace>>
    /\ ThreadsFrame

\* The manager is constructed: handlers.py schedules the rotation in the
\* constructor (if the pool is not empty) and waits for events; main() of
\* wallpaper_per_workspace.py runs the initial assignment on the event
\* thread, as a rotation does, before it enters the loop.
InitThreads ==
    /\ variant \in {"ipc", "wallpaper"}
    /\ \E p \in (IF variant = "ipc" THEN 0 ELSE 1)..MaxImages :
          all_wallpapers = [i \in 1..p |-> i]
    /\ workspace_wallpapers = <<>>
    /\ workspace_outputs = <<>>
    /\ active_workspaces = <<>>
    /\ current_workspace_id = 0
    /\ timers = IF variant = "ipc" /\ all_wallpapers # <<>>
                THEN <<"pending">> ELSE <<>>
    /\ wlog = [NoLog EXCEPT !.started = TRUE]
    /\ lock = "free"
    /\ \E workspaces \in ThreadReplies :
          th = [t \in Threads |->
                  IF t = "main" /\ variant = "wallpaper"
                  THEN Asked(variant, NoLocals, workspaces)
                  ELSE NoLocals]
    /\ trace = NoTrace
    /\ stream = <<>>
    /\ wire = <<>>
    /\ _msg_queue = <<>>
    /\ _incomplete = InitIncomplete(variant)
    /\ pc = "start"
    /\ resp = EmptyDict
    /\ returned = <<>>
    /\ eof_seen = FALSE
    /\ error = NoError
    /\ InitLoopIdle
    /\ InitDispatcher
    /\ InitTileIdle

NextThreads ==
    \/ Acquire
    \/ ReadWorkspaceActivated
    \/ ActivatedBody
    \/ AssignBody
    \/ ReadWorkspacesChanged
    \/ ChangedBody
    \/ Fire
    \/ RotateBody
    \/ ActiveBody
    \/ ApplyLookup
    \/ ApplyRun
    \/ Schedule
    \/ InterruptLoop
    \/ Stop
    \/ ExitProcess

SpecThreads == InitThreads /\ [][NextThreads]_vars

\* Thread t is let in by "with self.lock:".
AcquireBy(t) ==
    /\ th[t].pc \in AcquirePcs
    /\ lock = "free"
    /\ Acquire
    /\ lock' = t

\* Thread t leaves its "with self.lock:" block (by reaching its end, by a
\* return or by an exception).
ReleaseBy(t) ==
    /\ lock = t
    /\ \/ ActivatedBody
       \/ AssignBody
       \/ ChangedBody
       \/ RotateBody
       \/ ActiveBody
       \/ ApplyLookup
    /\ lock' = "free"

\* The threads as the interpreter schedules them: a thread that holds the
\* lock runs on to the end of its block (the blocks only read and write
\* dicts), and a thread that waits for the lock gets it once it stays free.
SpecThreadsFair ==
    /\ SpecThreads
    /\ \A t \in Threads : WF_vars(AcquireBy(t)) /\ WF_vars(ReleaseBy(t))

\* ------------------------------------------------------------------------
\* Claims

\* The values the messages of the stream parse to.
ParsedStream == [i \in 1..Len(stream) |-> Parsed(stream[i])]

IsPrefix(a, b) == Len(a) <= Len(b) /\ a = SubSeq(b, 1, Len(a))

(* C1: for every sequence of messages and every way of cutting the byte    *)
(* stream msg1 \n ... msgk \n into non-empty chunks, successive calls of   *)
(* _read_next return exactly msg1..msgk, one per call and in order (no     *)
(* call raises, none is lost, duplicated or merged), and the zero-length   *)
(* read that follows makes the next call return the end-of-stream          *)
(* sentinel.  Stated under SpecFraming.                                    *)
C1_Framing ==
    /\ error = NoError
    /\ IF pc = "eos" THEN returned = ParsedStream \o <<EmptyDict>>
       ELSE IsPrefix(returned, ParsedStream)

\* The messages of the model:  {"Ok":1}  {"Err":"é"}  {"A":1}  {"B":"é"}  {}

\* The (name, payload) pair an event message stands for.
PairOf(m) ==
    CASE m = MsgA -> <<<<65>>, [num |-> 1]>>
      [] m = MsgB -> <<<<66>>, [str |-> <<233>>]>>
      [] OTHER -> <<>>

\* The text received and not yet returned: the queued messages, each with
\* its newline, and the carried fragment.
RECURSIVE Joined(_)
Joined(q) == IF q = <<>> THEN <<>> ELSE Head(q) \o <<10>> \o Joined(Tail(q))
Unreturned == Joined(_msg_queue) \o _incomplete.s

\* (is_ok, data) as the claim gives it for a reply.
Unwrapped(r) ==
    IF HasKey(r, KeyOk) THEN [ok |-> TRUE, data |-> Lookup(r, KeyOk)]
    ELSE [ok |-> FALSE, data |-> Lookup(r, KeyErr)]

IsEnvelope(r) == HasKey(r, KeyOk) \/ HasKey(r, KeyErr)

(* C2: once EventStream has been sent on the event connection nothing else *)
(* is ever sent on it; every action or query goes over a second, newly     *)
(* opened connection that carries exactly one request and one reply and is *)
(* then closed, also when the exchange fails.                              *)
C2_ConnectionModes ==
    /\ \A i \in 1..Len(sent) : sent[i] = "EventStream" => i = Len(sent)
    /\ Len(sent) <= Len(SentAtSetup(variant)) + 1
    /\ \A t \in {"main", "timer"} :
          /\ conn2[t].sends <= 1
          /\ conn2[t].reads <= 1
          /\ conn2[t].reads = 1 => conn2[t].state = "closed"
          /\ conn2[t].state \in {"none", "open", "closed"}

(* C3: request and action send one message, read exactly one reply and     *)
(* return (true, X) for the reply {"Ok": X} and (false, E) for {"Err": E}; *)
(* no second message is consumed: after request("EventStream") returned,   *)
(* everything the peer sent after the reply is still unread or unreturned. *)
C3_RequestResponse ==
    /\ req_result # <<>> =>
          /\ sent = SentAtSetup(variant) \o <<"EventStream">>
          /\ stream # <<>> =>
                /\ stream[1] = MsgOk =>
                       req_result[1] = [ok |-> TRUE, data |-> [num |-> 1]]
                /\ stream[1] = MsgErr =>
                       req_result[1] = [ok |-> FALSE, data |-> [str |-> <<233>>]]
                /\ (Len(returned) = 1 /\ error = NoError) =>
                       encode_utf8(Unreturned) \o wire = Frame(Tail(stream))
    /\ \A t \in {"main", "timer"} :
          conn2[t].result # <<>> =>
             LET x == conn2[t].result[1]
             IN  /\ IsEnvelope(x.reply) =>
                        [ok |-> x.ok, data |-> x.data] = Unwrapped(x.reply)
                 /\ conn2[t].sends = 1
                 /\ conn2[t].reads = 1

C3_Witness ==
    /\ req_result = <<[ok |-> TRUE, data |-> [num |-> 1]]>>
    /\ conn2["main"].result # <<>>
    /\ conn2["main"].result[1].ok = FALSE
    /\ conn2["main"].result[1].data = [str |-> <<233>>]

(* C4: when the reply to EventStream is not an Ok envelope, read_eventstream *)
(* fails with an error that carries the error payload, yields no event and *)
(* reads no further message from the connection.                           *)
C4_RejectedStream ==
    (Len(returned) >= 1 /\ pc # "got_reply" /\ ~HasKey(returned[1], KeyOk)) =>
        /\ error = ExcWith("IOError", GetOrEmpty(returned[1], KeyErr))
        /\ yielded = <<>>
        /\ Len(returned) = 1

(* C5: after a successful EventStream request every message read from the  *)
(* connection is yielded as exactly one (name, payload) pair, name being   *)
(* the message's top-level key and payload its value; none is skipped and  *)
(* none yields more than one pair.                                         *)
C5_EventMode ==
    /\ Len(yielded) < Len(stream) \/ yielded = <<>>
    /\ \A i \in 1..Len(yielded) : yielded[i] = PairOf(stream[i + 1])
    /\ pc \in {"read_event", "handle", "cmd"} => Len(yielded) = Len(returned) - 1
    /\ pc = "got_event" => Len(yielded) = Len(returned) - 2

C5_Witness ==
    /\ Len(yielded) = 2
    /\ yielded[1] # yielded[2]
    /\ pc = "read_event"

\* The handlers called by one loop of the current dispatch, in call order.
RECURSIVE CallIds(_, _)
CallIds(cs, loop) ==
    IF cs = <<>> THEN <<>>
    ELSE (IF Head(cs).loop = loop THEN <<Head(cs).h>> ELSE <<>>)
             \o CallIds(Tail(cs), loop)

\* The handlers among the first n registrations that were registered for
\* any event (any = TRUE) or for the name, in registration order.
RECURSIVE RegIds(_, _, _)
RegIds(n, any, name) ==
    IF n = 0 THEN <<>>
    ELSE RegIds(n - 1, any, name)
             \o (IF registered[n].any = any /\ (any \/ registered[n].name = name)
                 THEN <<registered[n].h>> ELSE <<>>)

\* Each loop calls handlers of its own list, in registration order, without
\* skipping or repeating one; a handler registered while dispatch runs comes
\* after those registered before.
CalledInOrder ==
    dpc.at # "idle" =>
        /\ IsPrefix(CallIds(calls, "global"), RegIds(Len(registered), TRUE, <<>>))
        /\ IsPrefix(CallIds(calls, "named"),
                    RegIds(Len(registered), FALSE, dpc.args[1]))
        /\ \A i \in 1..Len(calls) : calls[i].args = dpc.args

(* C6: dispatch(name, data) calls every any-event handler exactly once in  *)
(* registration order, and only after all of them every handler registered *)
(* for name exactly once in registration order; handlers registered for    *)
(* other names are not called.  "Every handler" is every handler           *)
(* registered when dispatch is called.  Stated under SpecDispatch.         *)
C6_DispatchOrder ==
    /\ CalledInOrder
    /\ \A i, j \in 1..Len(calls) :
          (calls[i].loop = "global" /\ calls[j].loop = "named") => i < j
    /\ (\E i \in 1..Len(calls) : calls[i].loop = "named") =>
          IsPrefix(RegIds(dpc.snap, TRUE, <<>>), CallIds(calls, "global"))
    /\ dpc.at = "returned" =>
          /\ IsPrefix(RegIds(dpc.snap, TRUE, <<>>), CallIds(calls, "global"))
          /\ IsPrefix(RegIds(dpc.snap, FALSE, dpc.args[1]),
                      CallIds(calls, "named"))
          /\ dpc.snap = Len(registered) =>
                Len(calls) = Len(RegIds(dpc.snap, TRUE, <<>>))
                                + Len(RegIds(dpc.snap, FALSE, dpc.args[1]))

C6_Witness ==
    /\ dpc.at = "returned"
    /\ Len(calls) = 2
    /\ calls[1].loop = "global"
    /\ calls[2].loop = "named"
    /\ \E i \in 1..Len(registered) :
          ~registered[i].any /\ registered[i].name # dpc.args[1]

(* C7: when a handler fails during dispatch, the failure propagates to the *)
(* caller of dispatch, no handler later in the dispatch order is invoked   *)
(* for that event, and the handlers earlier in the order have run exactly  *)
(* once.  Stated under SpecDispatch.                                       *)
C7_DispatchFailure ==
    /\ \A i \in 1..Len(calls) :
          ~calls[i].ok => (i = Len(calls) /\ dpc.at = "raised")
    /\ dpc.at = "raised" =>
          /\ calls # <<>>
          /\ ~calls[Len(calls)].ok
          /\ CalledInOrder
          /\ calls[Len(calls)].loop = "named" =>
                CallIds(calls, "global") = RegIds(dpc.snap, TRUE, <<>>)
                    \o SubSeq(CallIds(calls, "global"),
                              Len(RegIds(dpc.snap, TRUE, <<>>)) + 1,
                              Len(CallIds(calls, "global")))

C7_Witness ==
    /\ dpc.at = "raised"
    /\ Len(calls) = 2
    /\ calls[1].ok
    /\ Len(_global_handlers) = 3

(* C8: each event of the stream is delivered to every handler exactly once *)
(* and in arrival order, and every command triggered by event i has ended  *)
(* before the loop reads event i+1.                                        *)
C8_Sequential ==
    /\ \A i \in 1..Len(yielded) : yielded[i] = PairOf(stream[i + 1])
    /\ \A j \in 1..Len(handled) :
          handled[j] = [ev |-> ((j - 1) \div NumHandlers(variant)) + 1,
                        h |-> ((j - 1) % NumHandlers(variant)) + 1]
    /\ Len(handled) <= NumHandlers(variant) * Len(yielded)
    /\ pc \in {"read_event", "got_event"} =>
          /\ Len(handled) = NumHandlers(variant) * Len(yielded)
          /\ cmd = "none"
          /\ conn2["main"].state # "open"

C8_Witness ==
    /\ pc = "cmd"
    /\ Len(yielded) = 2
    /\ hidx = NumHandlers(variant)
    /\ variant = "ipc"

(* C9: when the peer closes the event-stream connection, the loop delivers *)
(* every complete message already received and then terminates normally,   *)
(* without raising an error and without dispatching any further event.     *)
C9_EndOfStream ==
    (eof_seen /\ req_result # <<>> /\ req_result[1].ok /\ pc # "got_event") =>
        /\ error = NoError
        /\ pc \in {"ended", "exited"}
        /\ pc = "exited" => status = "normal"
        /\ Len(yielded) = Len(stream) - 1
        /\ Len(handled) = NumHandlers(variant) * Len(yielded)

(* C10: on every way the event loop ends (end of stream, interrupt, an     *)
(* error raised by a handler or by the transport) the event-stream         *)
(* connection is closed before the process exits.                          *)
C10_ClosedOnExit ==
    /\ pc = "exited" => closed
    /\ status # "running" => closed

C10_Witness ==
    /\ pc = "exited"
    /\ error.type = "HandlerError"
    /\ closed

\* ------------------------------------------------------------------------
\* Claims about the tiling handler (SpecTile)

\* The ids a mirror holds (none while it is None).
MirrorIds(m) == IF m.isNone THEN {} ELSE DictIds(m.items)

\* What a mirror holds for id i, without the cached column index.
Mirrored(m, i) ==
    LET x == DictGet(m.items, i)
    IN  [id |-> x.id, workspace_id |-> x.workspace_id,
         is_floating |-> x.is_floating, is_urgent |-> x.is_urgent,
         layout |-> x.layout]

\* The non-floating windows the mirror m holds for workspace s.
TiledOn(m, s) ==
    {m.items[j].id : j \in {i \in 1..Len(m.items) :
                               /\ m.items[i].workspace_id = s
                               /\ ~m.items[i].is_floating}}

SetWidth(x, pct) == [arg |-> pct, name |-> "SetWindowWidth", id |-> x]

\* The last event reported a non-floating window that an initialized mirror
\* did not hold.
NewTiled ==
    /\ tev.name = "WindowOpenedOrChanged"
    /\ before.hist.win_full
    /\ tev.window.id \notin MirrorIds(before.win)
    /\ ~tev.window.is_floating

\* The non-floating windows of the workspace of the last event's window.
Tiled == TiledOn(win_state, tev.window.workspace_id)

\* C11: a newly seen non-floating window that is the only non-floating
\* window of its workspace gets exactly one command, SetWidth(w, 100%), when
\* maximize-solos is on, and no command when it is off.
C11_SoloWindow ==
    (NewTiled /\ Cardinality(Tiled) = 1)
        => issued = IF cfg.maximize_solos
                    THEN <<SetWidth(tev.window.id, 100)>>
                    ELSE <<>>

C11_Witness ==
    /\ NewTiled
    /\ Cardinality(Tiled) = 1
    /\ cfg.maximize_solos
    /\ issued = <<SetWidth(tev.window.id, 100)>>
    /\ MirrorIds(before.win) # {}

C13_ThreeToN ==
    (NewTiled /\ 2 < Cardinality(Tiled) /\ Cardinality(Tiled) <= cfg.n)
        => issued =
             <<[arg |-> 0,
                name |-> IF /\ tev.window.layout # <<>>
                            /\ tev.window.layout[1] = 2
                         THEN "ConsumeOrExpelWindowRight"
                         ELSE "ConsumeOrExpelWindowLeft",
                id |-> tev.window.id]>>

C13_Witness ==
    /\ NewTiled
    /\ Cardinality(Tiled) = 3
    /\ cfg.n = 3
    /\ tev.window.layout = <<2, 1>>
    /\ Len(issued) = 1
    /\ issued[1].name = "ConsumeOrExpelWindowRight"

\* C14: for every threshold N >= 1, a newly seen non-floating window that
\* makes more than N non-floating windows on its workspace gets no command,
\* and the mirror holds the new window.
C14_Threshold ==
    (NewTiled /\ Cardinality(Tiled) > cfg.n)
        => /\ issued = <<>>
           /\ tev.window.id \in MirrorIds(win_state)
           /\ Mirrored(win_state, tev.window.id) = tev.window

\* The last event closed a window the mirror held.
ClosedMirrored ==
    /\ tev.name = "WindowClosed"
    /\ tev.id \in MirrorIds(before.win)

\* The mirror is what it was before the last event, without window i.
RemovedOnly(i) ==
    /\ ~win_state.isNone
    /\ win_state.items = SelectSeq(before.win.items, LAMBDA x : x.id # i)

\* The non-floating windows left on the closed window's workspace.
Remaining == TiledOn(win_state, Mirrored(before.win, tev.id).workspace_id)

\* The setting that governs maximizing on close: TileManager has the one
\* maximize-solos flag, niri_tile_to_n.py has a flag of its own (-xc).
MaximizeOnClose == IF variant = "tile" THEN cfg.on_close ELSE cfg.maximize_solos

\* C15 (as stated): closing a mirrored window removes it from the mirror and
\* issues SetWidth(remaining, 100%) exactly when one non-floating window
\* remains on its workspace and maximize-solos is on; otherwise no command.
C15_WindowClose_Stated ==
    ClosedMirrored
        => /\ RemovedOnly(tev.id)
           /\ issued = IF Cardinality(Remaining) = 1 /\ cfg.maximize_solos
                       THEN <<SetWidth(CHOOSE x \in Remaining : TRUE, 100)>>
                       ELSE <<>>

\* C15 (amended): closing a mirrored window removes it from the mirror and
\* issues SetWidth(remaining, 100%) exactly when one non-floating window
\* remains on its workspace and maximizing on close is enabled (TileManager:
\* maximize-solos; niri_tile_to_n.py: its own on-close flag); otherwise no
\* command.
C15_WindowClose ==
    ClosedMirrored
        => /\ RemovedOnly(tev.id)
           /\ issued = IF Cardinality(Remaining) = 1 /\ MaximizeOnClose
                       THEN <<SetWidth(CHOOSE x \in Remaining : TRUE, 100)>>
                       ELSE <<>>

C15_Witness ==
    /\ ClosedMirrored
    /\ Cardinality(Remaining) = 1
    /\ variant = "tile"
    /\ cfg.on_close
    /\ ~cfg.maximize_solos
    /\ Len(issued) = 1

\* The mirror after the last event is the one before it with the event's
\* window put under its id, every other entry as it was.
UpsertedOnly ==
    /\ MirrorIds(win_state) = MirrorIds(before.win) \cup {tev.window.id}
    /\ Mirrored(win_state, tev.window.id) = tev.window
    /\ \A i \in MirrorIds(before.win) \ {tev.window.id} :
          DictGet(win_state.items, i) = DictGet(before.win.items, i)

\* C16: every command issued for a WindowOpenedOrChanged event targets a
\* window the mirror holds as non-floating on the workspace of the event's
\* window; an event whose window is floating, or already mirrored with
\* apply-to-moved-windows off, issues no command and changes nothing but the
\* mirror entry of its window.
C16_TilingScope ==
    (tev.name = "WindowOpenedOrChanged" /\ ~before.win.isNone)
        => /\ \A k \in 1..Len(issued) : issued[k].id \in Tiled
           /\ ( \/ tev.window.is_floating
                \/ (tev.window.id \in MirrorIds(before.win) /\ ~cfg.on_move) )
                => (issued = <<>> /\ UpsertedOnly /\ wspace_state = before.ws)

C16_Witness ==
    /\ tev.name = "WindowOpenedOrChanged"
    /\ tev.window.id \in MirrorIds(before.win)
    /\ ~tev.window.is_floating
    /\ Mirrored(before.win, tev.window.id).workspace_id
          # tev.window.workspace_id
    /\ Cardinality(Tiled) = 2
    /\ variant = "tile"
    /\ ~cfg.on_move
    /\ issued = <<>>

\* The layout the changes of the last event leave window i with.
PatchedLayout(i) ==
    LET K == {k \in 1..Len(tev.changes) : tev.changes[k].id = i}
    IN  IF K = {} THEN Mirrored(before.win, i).layout
        ELSE tev.changes[CHOOSE k \in K : \A j \in K : j <= k].layout

\* C17: a WindowLayoutsChanged event issues no command and raises no error;
\* it replaces the layout of each mirrored window it names and nothing else,
\* and does nothing for an id the mirror does not hold.
C17_LayoutChanges ==
    (tev.name = "WindowLayoutsChanged" /\ before.hist.win_full)
        => /\ issued = <<>>
           /\ terr = "none"
           /\ MirrorIds(win_state) = MirrorIds(before.win)
           /\ \A i \in MirrorIds(before.win) :
                Mirrored(win_state, i)
                  = [Mirrored(before.win, i) EXCEPT !.layout = PatchedLayout(i)]

\* C18: an incremental event that arrives before the first full replace of
\* its mirror (WindowsChanged for window events, WorkspacesChanged for
\* workspace events) raises no error and issues no command.
C18_Uninitialized ==
    ( \/ /\ tev.name \in {"WindowOpenedOrChanged", "WindowClosed",
                          "WindowLayoutsChanged", "WindowUrgencyChanged"}
         /\ ~before.hist.win_full
      \/ /\ tev.name \in {"WorkspaceActivated", "WorkspaceUrgencyChanged"}
         /\ ~before.hist.ws_full )
        => (terr = "none" /\ issued = <<>>)

\* C19: once the mirror is initialized, an incremental event that names a
\* window or workspace the mirror does not hold (WindowClosed,
\* WindowUrgencyChanged, WorkspaceUrgencyChanged, or WorkspaceActivated with
\* an unknown previously focused workspace) is skipped: no error, no command,
\* both mirrors as they were.
C19_UnknownIds ==
    ( \/ /\ tev.name \in {"WindowClosed", "WindowUrgencyChanged"}
         /\ before.hist.win_full
         /\ tev.id \notin MirrorIds(before.win)
      \/ /\ tev.name = "WorkspaceUrgencyChanged"
         /\ before.hist.ws_full
         /\ tev.id \notin MirrorIds(before.ws)
      \/ /\ tev.name = "WorkspaceActivated"
         /\ before.hist.ws_full
         /\ before.focus \notin MirrorIds(before.ws) )
        => /\ terr = "none"
           /\ issued = <<>>
           /\ win_state = before.win
           /\ wspace_state = before.ws

\* What the mirror m holds of what the events that describe a window said:
\* id, workspace, floating flag and layout (not the col_idx
\* niri_tile_to_n.py adds, nor the urgency flag, which the describing events
\* of the model carry as FALSE and WindowUrgencyChanged sets).
MirrorData(m) ==
    IF m.isNone THEN {}
    ELSE {Window(m.items[i].id, m.items[i].workspace_id,
                 m.items[i].is_floating, m.items[i].layout)
          : i \in 1..Len(m.items)}

\* C31: once a WindowsChanged full replace was handled, the window mirror
\* holds exactly the windows of the reference model (latest full replace,
\* plus opened, minus closed, each with the data of its latest describing
\* event and the layout of the latest layout change after it), and a full
\* replace issues no command.
C31_MirrorMatchesReference ==
    /\ hist.win_full =>
          /\ ~win_state.isNone
          /\ MirrorData(win_state) = hist.ref
          /\ Cardinality(DictIds(win_state.items)) = Len(win_state.items)
    /\ tev.name = "WindowsChanged" => issued = <<>>

\* ------------------------------------------------------------------------
\* Claims about the wallpaper manager (SpecWallpaper)

\* The image workspace i is assigned.
Assigned(i) == DictGet(workspace_wallpapers, i).v

\* C20: after one rotate() that knew k workspaces, with a pool of p images:
\* no error, every one of the k workspaces is assigned an image of the pool;
\* when p >= k the k images are pairwise distinct; when 0 < p < k the images
\* repeat with period p in the order the rotation went through the
\* workspaces.
C20_RotationAssignment ==
    wlog.op = "rotate"
        => LET known == wlog.known
               k == Len(known)
               p == Len(all_wallpapers)
           IN  /\ wlog.err = "none"
               /\ \A a \in 1..k :
                     /\ known[a] \in DictIds(workspace_wallpapers)
                     /\ Assigned(known[a]) \in DictValues(
                           [i \in 1..p |-> Binding(i, all_wallpapers[i])])
               /\ p >= k
                     => \A a, b \in 1..k :
                           a # b => Assigned(known[a]) # Assigned(known[b])
               /\ (0 < p /\ p < k)
                     => \A a \in 1..k :
                           a + p <= k
                             => Assigned(known[a]) = Assigned(known[a + p])

\* C21: in every reachable state, whatever events and rotations led to it,
\* no two workspaces that hold an assignment hold the same image, as long as
\* the pool has at least as many images as there are assigned workspaces.
C21_Uniqueness ==
    Len(all_wallpapers) >= Len(workspace_wallpapers)
        => \A a, b \in 1..Len(workspace_wallpapers) :
              a # b => workspace_wallpapers[a].v # workspace_wallpapers[b].v

\* The timers that have been started and have neither fired nor been
\* cancelled.
PendingTimers == {i \in 1..Len(timers) : timers[i] = "pending"}

\* C22: at most one rotation timer is pending in every reachable state; a
\* rotate() that completed has left exactly one pending timer, the one it
\* started, and the timer stored before it is no longer pending: after two
\* calls of rotate() with no cancellation in between, one timer is pending.
C22_SinglePending ==
    /\ Cardinality(PendingTimers) <= 1
    /\ (wlog.op = "rotate" /\ wlog.err = "none")
          => /\ timers # <<>>
             /\ PendingTimers = {Len(timers)}

\* rotate() ran twice, the second time while the timer of the first was
\* still pending.
C22_Witness ==
    /\ wlog.op = "rotate"
    /\ wlog.rotations = 2
    /\ Len(timers) >= 3
    /\ timers[Len(timers) - 1] = "cancelled"
    /\ timers[Len(timers) - 2] \in {"fired", "cancelled"}

\* The images of the pool.
PoolImages == {all_wallpapers[i] : i \in 1..Len(all_wallpapers)}

\* The workspaces a WorkspacesChanged event lists.
Listed == {wlog.ev[i].id : i \in 1..Len(wlog.ev)}

\* C23: while a WorkspacesChanged or WorkspaceActivated event is handled,
\* every image picked for a workspace without an assignment is an image of
\* the pool, and one that no workspace held at the time whenever the pool
\* had such an image; every workspace that is newly assigned got its image
\* by such a pick; and a workspace that was assigned before the event and
\* is still reported keeps the image it had.
C23_AssignmentChoice ==
    wlog.op \in {"WorkspacesChanged", "WorkspaceActivated"}
        => /\ \A k \in 1..Len(wlog.picks) :
                 LET pk == wlog.picks[k]
                 IN  /\ pk.img \in PoolImages
                     /\ PoolImages \ pk.used # {} => pk.img \notin pk.used
           /\ \A a \in 1..Len(workspace_wallpapers) :
                 LET b == workspace_wallpapers[a]
                 IN  b.id \notin DictIds(wlog.was.wp)
                       => \E k \in 1..Len(wlog.picks) :
                             /\ wlog.picks[k].ws = b.id
                             /\ wlog.picks[k].img = b.v
           /\ \A a \in 1..Len(wlog.was.wp) :
                 LET b == wlog.was.wp[a]
                 IN  (wlog.op = "WorkspaceActivated" \/ b.id \in Listed)
                       => /\ b.id \in DictIds(workspace_wallpapers)
                          /\ Assigned(b.id) = b.v

\* A WorkspacesChanged event listed an assigned workspace and two new ones:
\* the first new one found a free image, the second found none.
C23_Witness ==
    /\ wlog.op = "WorkspacesChanged"
    /\ Len(wlog.picks) = 2
    /\ PoolImages \ wlog.picks[1].used # {}
    /\ PoolImages \ wlog.picks[2].used = {}
    /\ \E a \in 1..Len(wlog.was.wp) : wlog.was.wp[a].id \in Listed

\* C24: a workspace that the last WorkspacesChanged event did not report,
\* and that no reply and no WorkspaceActivated event has named since, holds
\* no wallpaper assignment, whatever rotations have run since.
C24_RemovedWorkspaces ==
    \A w \in wlog.gone : w \notin DictIds(workspace_wallpapers)

\* C25: after a WorkspacesChanged event was handled by a manager whose pool
\* is not empty, every workspace the event lists holds an assignment, the
\* output binding of every listed workspace that names an output is that
\* output, and the tracked focus is the listed workspace that is focused.
C25_NewlySeen ==
    (wlog.op = "WorkspacesChanged" /\ all_wallpapers # <<>>)
        => \A i \in 1..Len(wlog.ev) :
              LET ws == wlog.ev[i]
              IN  /\ ws.id \in DictIds(workspace_wallpapers)
                  /\ ws.output # NoOutput
                        => /\ ws.id \in DictIds(workspace_outputs)
                           /\ DictGet(workspace_outputs, ws.id).v = ws.output
                  /\ ws.is_focused => current_workspace_id = ws.id

\* What the handling of the WorkspaceActivated event wlog.ev did, against
\* the state wlog.was it started from: for a focused event that names a
\* workspace other than the tracked one, the focus is that workspace, it
\* holds an assignment (the one it had, if it had one), nothing else
\* changed, the rotation timers are as they were, and the wallpaper command
\* ran once for it when it has an output binding; for any other event
\* nothing changed and no command ran.
ActivationHandled ==
    LET e == wlog.ev
        w == wlog.was
    IN  IF e.focused /\ e.id # w.cur
        THEN /\ wlog.err = "none"
             /\ current_workspace_id = e.id
             /\ e.id \in DictIds(workspace_wallpapers)
             /\ \A a \in 1..Len(w.wp) :
                   /\ w.wp[a].id \in DictIds(workspace_wallpapers)
                   /\ Assigned(w.wp[a].id) = w.wp[a].v
             /\ Len(workspace_wallpapers) <= Len(w.wp) + 1
             /\ workspace_outputs = w.outs
             /\ active_workspaces = w.act
             /\ timers = w.timers
             /\ wlog.applied =
                   IF e.id \in DictIds(workspace_outputs)
                   THEN <<[output |-> DictGet(workspace_outputs, e.id).v,
                           img |-> Assigned(e.id)]>>
                   ELSE <<>>
        ELSE /\ wlog.err = "none"
             /\ workspace_wallpapers = w.wp
             /\ workspace_outputs = w.outs
             /\ active_workspaces = w.act
             /\ current_workspace_id = w.cur
             /\ timers = w.timers
             /\ wlog.applied = <<>>

C27_FailuresSwallowed ==
    \A t \in Threads : th[t].exc # "FileNotFoundError"

\* C28: once stop() has cancelled the rotation timer, no rotation timer is
\* pending and no rotation starts any more, however stop() on the event
\* thread interleaves with a rotation running on the timer thread.
C28_ShutdownStopsRotation ==
    trace.stopped
        => /\ \A i \in 1..Len(timers) : timers[i] # "pending"
           /\ ~trace.fired_after_stop

\* C29: every read or write of the state both threads touch, the pending
\* timer slot included, is made by a thread that holds the mutex, and the
\* external wallpaper command is never run by a thread that holds it.
C29_MutexDiscipline ==
    /\ trace.unlocked = {}
    /\ trace.locked_cmds = 0

\* A thread takes a step of apply: the locked lookup or the command.
ApplyStep(t) ==
    /\ th[t].pc \in {"apply_body", "apply_run"}
    /\ th'[t] # th[t]

\* C30: a call of apply(ws) runs the external command at most once, only
\* when the maps held both an assignment and an output binding for ws at
\* the locked lookup, and then with that image and that output; once the
\* call is over the command has run exactly once in that case and not at
\* all when either was missing; and no step of apply changes the maps, the
\* tracked focus or the timers.
C30_Apply ==
    /\ [](\A t \in Threads :
             LET c == trace.applies[t]
                 both == c.had_wallpaper /\ c.had_output
             IN  /\ Len(c.cmds) <= 1
                 /\ \A k \in 1..Len(c.cmds) :
                       /\ both
                       /\ c.cmds[k].img = c.img
                       /\ c.cmds[k].output = c.out
                 /\ c.done => Len(c.cmds) = (IF both THEN 1 ELSE 0))
    /\ [][\A t \in Threads :
             ApplyStep(t)
                => UNCHANGED <<workspace_wallpapers, workspace_outputs,
                               active_workspaces, current_workspace_id,
                               timers>>]_vars

\* One thread's apply ran the command with the image it had looked up,
\* which the map no longer holds for that workspace, and the other
\* thread's apply found no assignment or no output and ran nothing.
C30_Witness ==
    \E t, u \in Threads :
       /\ t # u
       /\ trace.applies[t].done
       /\ Len(trace.applies[t].cmds) = 1
       /\ trace.applies[t].cmds[1].img
             # get_wallpaper(workspace_wallpapers, trace.applies[t].ws)
       /\ trace.applies[u].done
       /\ trace.applies[u].ws # 0
       /\ trace.applies[u].cmds = <<>>

\* ------------------------------------------------------------------------
\* Claims about the threads of the wallpaper manager, continued

\* Both threads are between operations and none has raised.
Quiet == \A t \in Threads : th[t].pc = "idle"

\* The tracked focus has an assignment and an output binding and, where
\* the manager keeps the active workspace of each output
\* (wallpaper_per_workspace.py), it is the active one of its output.
FocusShown ==
    /\ current_workspace_id \in DictIds(workspace_wallpapers)
    /\ current_workspace_id \in DictIds(workspace_outputs)
    /\ variant = "wallpaper" =>
          \E i \in 1..Len(active_workspaces) :
             /\ active_workspaces[i].id
                   = get_output(workspace_outputs, current_workspace_id)
             /\ active_workspaces[i].v = current_workspace_id

\* The image of the last swww command that ran for output o.
Shown(o) ==
    IF o \in DictIds(trace.shown) THEN DictGet(trace.shown, o).v
    ELSE NoWallpaper

\* C32: a rotation and the handling of focused WorkspaceActivated events
\* ran since the last WorkspacesChanged (in whatever interleaving) and both
\* threads have finished: the image last applied to the output of the
\* focused workspace is the focused workspace's current assignment.
C32_NoStaleApply ==
    (Quiet /\ trace.since = {"rotate", "activated"} /\ FocusShown)
        => Shown(get_output(workspace_outputs, current_workspace_id))
              = get_wallpaper(workspace_wallpapers, current_workspace_id)

\* ------------------------------------------------------------------------
\* Claims about the wallpaper manager (SpecWallpaper), continued

\* The image of the last of the commands cmds that names output o.
LastApplied(cmds, o) ==
    LET K == {k \in 1..Len(cmds) : cmds[k].output = o}
    IN  IF K = {} THEN NoWallpaper
        ELSE cmds[CHOOSE k \in K : \A j \in K : j <= k].img

\* The workspaces the manager knows to be displayed, with their outputs:
\* wallpaper_per_workspace.py keeps the active workspace of each output,
\* handlers.py only the focused workspace. Only those that have an
\* assignment and an output binding count.
Displayed ==
    {b \in (IF variant = "ipc"
            THEN {Binding(get_output(workspace_outputs, current_workspace_id),
                          current_workspace_id)}
            ELSE {active_workspaces[i] : i \in 1..Len(active_workspaces)}) :
       /\ b.v \in DictIds(workspace_wallpapers)
       /\ b.v \in DictIds(workspace_outputs)}

\* C33: after a rotation, the image last applied to an output is the
\* assignment of the workspace displayed on that output, not that of
\* another workspace bound to the same output.
C33_RotationShowsActive ==
    (wlog.op = "rotate" /\ wlog.err = "none")
        => \A b \in Displayed :
              LastApplied(wlog.applied, b.id) = Assigned(b.v)

\* ------------------------------------------------------------------------
\* Claims about the transport, continued

\* C34: _read_next returns the empty mapping only for a zero-length read
\* with an empty queue, so the sentinel is the last value returned and the
\* queue is empty when it is returned; read_eventstream ends only when the
\* peer has closed.
C34_SentinelExact ==
    /\ \A i \in 1..Len(returned) :
          returned[i] = EmptyDict => (eof_seen /\ i = Len(returned))
    /\ eof_seen => (returned # <<>> /\ returned[Len(returned)] = EmptyDict
                       /\ _msg_queue = <<>>)
    /\ pc = "ended" => eof_seen

\* ------------------------------------------------------------------------
\* Claims about the wallpaper manager (SpecWallpaper), continued

\* C35: a manager whose scan found no image never schedules a rotation,
\* never rotates, never picks an image, and handles every WorkspacesChanged
\* and WorkspaceActivated event without an error (random.choice is never
\* called on an empty pool).
C35_EmptyPoolNeverSampled ==
    all_wallpapers = <<>>
        => /\ timers = <<>>
           /\ wlog.rotations = 0
           /\ wlog.picks = <<>>
           /\ wlog.err = "none"
           /\ workspace_wallpapers = <<>>

\* ------------------------------------------------------------------------
\* Claims about the threads of the wallpaper manager: the mutex

\* Where a thread is inside a "with self.lock:" block.
BodyPcs == {Body(p) : p \in AcquirePcs}

\* Thread t waits in "with self.lock:" for the lock.
Waits(t) == Alive(t) /\ th[t].pc \in AcquirePcs

\* C36: no thread asks for the lock while it holds it; a thread holds the
\* lock exactly while it is inside a locked block, and every step it takes
\* there leaves the block and releases the lock (at the end of the block, at
\* an early return or by an exception); so the lock is free again and again
\* (until the process ends), and no thread waits for it forever.
C36_NoDeadlock ==
    /\ [](\A t \in Threads :
             /\ th[t].pc \in AcquirePcs => lock # t
             /\ lock = t <=> th[t].pc \in BodyPcs)
    /\ [][\A t \in Threads :
             (lock = t /\ th'[t] # th[t]) => lock' = "free"]_vars
    /\ []<>(lock = "free" \/ th["main"].pc = "exited")
    /\ \A t \in Threads : []<>(~Waits(t))

\* One thread waits for the lock while the other holds it, after an event
\* was handled whose handler returned early inside its locked block.
C36_Witness ==
    \E t, u \in Threads :
       /\ t # u
       /\ th[t].pc \in AcquirePcs
       /\ lock = u
       /\ wlog.events > 0

\* ------------------------------------------------------------------------
\* Claims about the transport: what _read_next keeps between reads

\* The bytes the raw reads have returned so far.
Received == SubSeq(Frame(stream), 1, Len(Frame(stream)) - Len(wire))

HasNewline(s) == \E i \in 1..Len(s) : IsNewline(s[i])

\* C37: after every raw read neither the carried fragment nor a queued
\* message contains a newline, the carried fragment is None or empty exactly
\* when the data received so far ends with a newline, and the IOError for an
\* empty message list is never raised.
C37_TransportInvariants ==
    Received # <<>> =>
       /\ ~HasNewline(_incomplete.s)
       /\ \A i \in 1..Len(_msg_queue) : ~HasNewline(_msg_queue[i])
       /\ _incomplete.s = <<>> <=> IsNewline(Received[Len(Received)])
       /\ error # EmptyMessageList

====
